---- MODULE Spec2Model ----
(***************************************************************************)
(* A model of the qsiprep-prep staging scripts:                            *)
(*   scripts/bidsify_qsiprep.py        stage_from_flat_inputs + bidsify    *)
(*   scripts/bidsify_qsiprep_func.py   bidsify on declared arguments       *)
(*   scripts/bidsify_qsiprep_draft.py  flat-directory discovery variant    *)
(*                                                                         *)
(* Text is modelled character by character: a string is a sequence of      *)
(* one-character strings, so that strip(), split(), sorted(), re.sub() and *)
(* the name templates are computed as the code computes them.              *)
(***************************************************************************)
EXTENDS Naturals, Integers, Sequences, FiniteSets, TLC

(***************************************************************************)
(* Characters and strings                                                  *)
(***************************************************************************)

\* The characters used by the model, in code-point order.
Ascii ==
    << "\t", " ", "-", ".", "/",
       "0", "1", "2", "3", "4", "5", "6", "7", "8", "9",
       "A", "B", "C", "D", "E", "F", "G", "H", "I", "J", "K", "L", "M",
       "N", "O", "P", "Q", "R", "S", "T", "U", "V", "W", "X", "Y", "Z",
       "_",
       "a", "b", "c", "d", "e", "f", "g", "h", "i", "j", "k", "l", "m",
       "n", "o", "p", "q", "r", "s", "t", "u", "v", "w", "x", "y", "z" >>

\* Position of a character in code-point order (what Python compares).
Ord(c) == CHOOSE i \in 1..Len(Ascii) : Ascii[i] = c

Digits == {"0", "1", "2", "3", "4", "5", "6", "7", "8", "9"}
UpperLetters == {Ascii[i] : i \in 16..41}
LowerLetters == {Ascii[i] : i \in 43..68}
Letters == UpperLetters \cup LowerLetters
Whitespace == {"\t", " "}

\* str.lower() and str.upper() on one character.
LowerChar(c) == IF c \in UpperLetters THEN Ascii[Ord(c) + 27] ELSE c
UpperChar(c) == IF c \in LowerLetters THEN Ascii[Ord(c) - 27] ELSE c
Lower(s) == [i \in 1..Len(s) |-> LowerChar(s[i])]
Upper(s) == [i \in 1..Len(s) |-> UpperChar(s[i])]

\* Python's None, for the Optional[str] results of the classifier.
None == << >>

\* s < t in Python's string order (lexicographic by code point).
RECURSIVE StrLess(_, _)
StrLess(s, t) ==
    IF t = << >> THEN FALSE
    ELSE IF s = << >> THEN TRUE
    ELSE IF Ord(Head(s)) # Ord(Head(t)) THEN Ord(Head(s)) < Ord(Head(t))
    ELSE StrLess(Tail(s), Tail(t))

\* str.strip(): leading and trailing whitespace removed.
RECURSIVE LStrip(_)
LStrip(s) ==
    IF s # << >> /\ Head(s) \in Whitespace THEN LStrip(Tail(s)) ELSE s

RECURSIVE RStrip(_)
RStrip(s) ==
    IF s # << >> /\ s[Len(s)] \in Whitespace
    THEN RStrip(SubSeq(s, 1, Len(s) - 1)) ELSE s

Strip(s) == RStrip(LStrip(s))

\* "needle in hay" for strings.
Contains(hay, needle) ==
    \E i \in 1..(Len(hay) + 1) :
        /\ i + Len(needle) - 1 <= Len(hay)
        /\ SubSeq(hay, i, i + Len(needle) - 1) = needle

\* str.replace(c, ""): every occurrence of the character removed.
RemoveChar(s, c) == SelectSeq(s, LAMBDA x : x # c)

(***************************************************************************)
(* Label Sanitizer                                                         *)
(***************************************************************************)

UNKNOWN == <<"U", "N", "K", "N", "O", "W", "N">>

\* re.sub(r'[^A-Za-z0-9]+', '', raw_label) or "UNKNOWN"
sanitize_bids_subj(raw_label) ==
    LET cleaned == SelectSeq(raw_label, LAMBDA c : c \in Letters \cup Digits)
    IN  IF cleaned # << >> THEN cleaned ELSE UNKNOWN

(***************************************************************************)
(* Metadata records (the JSON side-car files)                              *)
(*                                                                         *)
(* A record is a function from the keys it holds to JSON values.  A JSON   *)
(* value carries its type: a string (s), a number (n) or a list (l).       *)
(***************************************************************************)

K_ETRT == "EstimatedTotalReadoutTime"
K_TRT == "TotalReadoutTime"
K_PED == "PhaseEncodingDirection"
K_PEA == "PhaseEncodingAxis"
K_IF == "IntendedFor"

StrV(s) == [t |-> "str", s |-> s, n |-> 0, l |-> << >>]
NumV(n) == [t |-> "num", s |-> << >>, n |-> n, l |-> << >>]
ListV(l) == [t |-> "list", s |-> << >>, n |-> 0, l |-> l]
\* What dict.get(key) returns for a key the record does not hold.
NoneV == [t |-> "none", s |-> << >>, n |-> 0, l |-> << >>]

Get(meta, k) == IF k \in DOMAIN meta THEN meta[k] ELSE NoneV
Put(meta, k, v) == (k :> v) @@ meta
Del(meta, k) ==
    CHOOSE f \in {[x \in DOMAIN m \ {k} |-> m[x]] : m \in {meta}} : TRUE
EmptyMeta == [x \in {} |-> NoneV]

\* Python truthiness of a JSON value: "not meta.get(...)" is its negation.
Truthy(v) ==
    CASE v.t = "str" -> v.s # << >>
      [] v.t = "num" -> v.n # 0
      [] v.t = "list" -> v.l # << >>
      [] OTHER -> FALSE

\* str(v).strip() == "" : only a string of whitespace is blank.
IsBlank(v) == v.t = "str" /\ Strip(v.s) = << >>

\* A variant for comparison: the deprecated field always replaces
\* TotalReadoutTime.
MigrateReadoutAlways(meta) ==
    IF K_ETRT \in DOMAIN meta
    THEN Del(Put(meta, K_TRT, meta[K_ETRT]), K_ETRT)
    ELSE meta

\* Lines 124-127: the deprecated readout-time field is migrated and removed.
MigrateReadout(meta) ==
    IF K_ETRT \in DOMAIN meta
    THEN Del(IF ~Truthy(Get(meta, K_TRT))
             THEN Put(meta, K_TRT, meta[K_ETRT])
             ELSE meta,
             K_ETRT)
    ELSE meta

\* A variant for comparison: "-" is appended whatever the value holds.
TogglePolarityAppend(v) == StrV(v.s \o <<"-">>)

\* Lines 132-136: the polarity toggle of a derived direction.
TogglePolarity(v) ==
    IF Contains(v.s, <<"-">>)
    THEN StrV(RemoveChar(v.s, "-"))
    ELSE StrV(v.s \o <<"-">>)

\* A variant for comparison: with no axis to derive the direction from, the
\* record is saved as it is.
DerivePEDSilent(meta, reverse_pedir) ==
    IF /\ (K_PED \notin DOMAIN meta) \/ IsBlank(meta[K_PED])
       /\ ~((K_PEA \notin DOMAIN meta) \/ IsBlank(meta[K_PEA]))
    THEN [ok |-> TRUE,
          meta |-> Put(meta, K_PED,
                       IF reverse_pedir THEN TogglePolarity(meta[K_PEA])
                       ELSE meta[K_PEA])]
    ELSE [ok |-> TRUE, meta |-> meta]

\* A variant for comparison: with reverse_pedir set, a direction that the
\* record already holds is toggled as well.
DerivePEDRetoggle(meta, reverse_pedir) ==
    IF (K_PED \notin DOMAIN meta) \/ IsBlank(meta[K_PED])
    THEN IF (K_PEA \notin DOMAIN meta) \/ IsBlank(meta[K_PEA])
         THEN [ok |-> FALSE, meta |-> meta]
         ELSE [ok |-> TRUE,
               meta |-> Put(meta, K_PED,
                            IF reverse_pedir
                            THEN TogglePolarity(meta[K_PEA])
                            ELSE meta[K_PEA])]
    ELSE [ok |-> TRUE,
          meta |-> IF reverse_pedir /\ meta[K_PED].t = "str"
                   THEN Put(meta, K_PED, TogglePolarity(meta[K_PED]))
                   ELSE meta]

\* Lines 128-136: PhaseEncodingDirection derived from PhaseEncodingAxis.
\* The result is what the function holds when it reaches save_json, or the
\* exception that it raises before.
DerivePED(meta, reverse_pedir) ==
    IF (K_PED \notin DOMAIN meta) \/ IsBlank(meta[K_PED])
    THEN IF (K_PEA \notin DOMAIN meta) \/ IsBlank(meta[K_PEA])
         THEN [ok |-> FALSE, meta |-> meta]
         ELSE [ok |-> TRUE,
               meta |-> Put(meta, K_PED,
                            IF reverse_pedir
                            THEN TogglePolarity(meta[K_PEA])
                            ELSE meta[K_PEA])]
    ELSE [ok |-> TRUE, meta |-> meta]

\* update_dwi_json of bidsify_qsiprep.py.  ok = FALSE: the exception was
\* raised and save_json was not reached; ok = TRUE: meta is what is saved.
update_dwi_json(meta, reverse_pedir) ==
    DerivePED(MigrateReadout(meta), reverse_pedir)

\* update_fmap_json of bidsify_qsiprep.py.
update_fmap_json(meta, reverse_pedir, intended_files) ==
    DerivePED(Put(MigrateReadout(meta), K_IF, ListV(intended_files)),
              reverse_pedir)

\* update_dwi_json of bidsify_qsiprep_func.py (the same text).
func_update_dwi_json(meta, reverse_pedir) ==
    DerivePED(MigrateReadout(meta), reverse_pedir)

\* Lines 96-97 of the draft: the direction comes from the caller's ped.
DraftSetPED(meta, ped) ==
    IF (K_PED \notin DOMAIN meta) \/ IsBlank(meta[K_PED])
    THEN IF ped # None THEN Put(meta, K_PED, StrV(ped)) ELSE meta
    ELSE meta

\* update_dwi_json of bidsify_qsiprep_draft.py: it never raises.
draft_update_dwi_json(meta, ped) ==
    [ok |-> TRUE, meta |-> DraftSetPED(MigrateReadout(meta), ped)]

\* update_fmap_json of bidsify_qsiprep_draft.py.
draft_update_fmap_json(meta, ped, intended_files) ==
    [ok |-> TRUE,
     meta |-> DraftSetPED(Put(MigrateReadout(meta), K_IF, ListV(intended_files)),
                          ped)]

(***************************************************************************)
(* Files and directories                                                   *)
(***************************************************************************)

S_nii == <<".", "n", "i", "i", ".", "g", "z">>
S_bval == <<".", "b", "v", "a", "l">>
S_bvec == <<".", "b", "v", "e", "c">>
S_json == <<".", "j", "s", "o", "n">>
S_t1 == <<"t", "1">>
S_sub == <<"s", "u", "b", "-">>

\* The companions of a diffusion series, in the order the loops visit them.
DwiExts == <<S_nii, S_bval, S_bvec, S_json>>
T1Exts == <<S_nii, S_json>>

\* The input file sets offered to the scripts.  dir: the directory that
\* holds the set; base: the name without its extension; exts: the companions
\* that exist; meta: the content of the .json; bvals: the numbers of the
\* .bval, in tenths (9950 is 995.0).
InputSets ==
    << [dir |-> "A", base |-> <<"d", "1", "a", "p", "p">>,
        exts |-> {S_nii, S_bval, S_bvec, S_json},
        meta |-> (K_ETRT :> NumV(5)) @@ (K_PEA :> StrV(<<"j">>)),
        bvals |-> <<0, 9950, 10050, 10000>>],
       [dir |-> "A", base |-> <<"d", "2", "a", "p", "p">>,
        exts |-> {S_nii, S_bval, S_bvec, S_json},
        meta |-> (K_TRT :> NumV(7)) @@ (K_PED :> StrV(<<"j", "-">>)),
        bvals |-> <<0, 10000>>],
       [dir |-> "B", base |-> <<"d", "1", "a", "p", "p">>,
        exts |-> {S_nii, S_bval, S_bvec, S_json},
        meta |-> (K_PEA :> StrV(<<"j">>)),
        bvals |-> <<0, 20000>>],
       [dir |-> "B", base |-> <<"d", "3", "a", "p", "p">>,
        exts |-> {S_nii, S_bval, S_bvec, S_json},
        meta |-> (K_TRT :> NumV(7)),
        bvals |-> <<0, 20000>>],
       [dir |-> "B", base |-> <<"d", "4", "a", "p", "p">>,
        exts |-> {S_nii, S_bval, S_json},
        meta |-> (K_PEA :> StrV(<<"j">>)),
        bvals |-> <<0, 30000>>],
       [dir |-> "A", base |-> <<"r", "a", "p", "a">>,
        exts |-> {S_nii, S_bval, S_bvec, S_json},
        meta |-> (K_ETRT :> NumV(5)) @@ (K_PEA :> StrV(<<"j">>)),
        bvals |-> <<0, 0>>],
       [dir |-> "B", base |-> <<"r", "2", "a", "p", "a">>,
        exts |-> {S_nii, S_bval, S_bvec, S_json},
        meta |-> (K_ETRT :> NumV(5)),
        bvals |-> <<0>>],
       [dir |-> "A", base |-> S_t1,
        exts |-> {S_nii, S_json},
        meta |-> EmptyMeta,
        bvals |-> << >>],
       [dir |-> "B", base |-> S_t1,
        exts |-> {S_nii},
        meta |-> EmptyMeta,
        bvals |-> << >>],
       [dir |-> "B", base |-> <<"d", "5", "a", "p", "p">>,
        exts |-> {S_nii, S_bval, S_bvec, S_json},
        meta |-> (K_PED :> StrV(<<"j">>)),
        bvals |-> <<0, 20000, 20000>>] >>

\* The content of an input file: where its bytes come from and, for a
\* .json, the record it holds.  copy_file (shutil.copy2) carries it over.
InputFile(id, ext) ==
    [origin |-> <<id, ext>>,
     meta |-> IF ext = S_json THEN InputSets[id].meta ELSE EmptyMeta]

\* A .json written by save_json from a record built by the script.
SavedJson(meta) == [origin |-> <<0, S_json>>, meta |-> meta]

SrcExists(id, ext) == ext \in InputSets[id].exts

NoFiles == [x \in {} |-> InputFile(1, S_nii)]

\* sorted(...) of a set of strings.
RECURSIVE SortStrs(_)
SortStrs(S) ==
    IF S = {} THEN << >>
    ELSE LET m == CHOOSE x \in S : \A y \in S \ {x} : StrLess(x, y)
         IN  <<m>> \o SortStrs(S \ {m})

EndsWith(s, suffix) ==
    /\ Len(s) >= Len(suffix)
    /\ SubSeq(s, Len(s) - Len(suffix) + 1, Len(s)) = suffix

StartsWith(s, prefix) ==
    /\ Len(s) >= Len(prefix)
    /\ SubSeq(s, 1, Len(prefix)) = prefix

\* sorted(d.glob("*.nii.gz")) of a directory d (its file names).
GlobNii(d) == SortStrs({n \in DOMAIN d : EndsWith(n, S_nii)})

\* nii.name[:-7]
Base(name) == SubSeq(name, 1, Len(name) - 7)

(***************************************************************************)
(* Filename Classifier                                                     *)
(***************************************************************************)

Separators == {"_", "-"}
S_dirdash == <<"d", "i", "r", "-">>
S_AP == <<"A", "P">>
S_PA == <<"P", "A">>

\* PED_MAP = {"AP":"j-","PA":"j"}
PED_MAP == << [key |-> S_AP, val |-> <<"j", "-">>],
              [key |-> S_PA, val |-> <<"j">>] >>

\* ALT_DIR_HINTS, in the order the dictionary is iterated.
ALT_DIR_HINTS ==
    << [hint |-> <<"a", "p", "p">>, val |-> S_AP],
       [hint |-> <<"a", "p", "a">>, val |-> S_PA],
       [hint |-> <<"_", "a", "p", "_">>, val |-> S_AP],
       [hint |-> <<"-", "a", "p", "-">>, val |-> S_AP],
       [hint |-> <<"_", "p", "a", "_">>, val |-> S_PA],
       [hint |-> <<"-", "p", "a", "-">>, val |-> S_PA] >>

\* DIR_TOKEN_RE = (?:^|[_-])dir-([A-Za-z]{2})(?:[_-]|$), IGNORECASE, matching
\* with "dir-" at position i of the name.
DIR_TOKEN_RE(name, i) ==
    /\ i + 5 <= Len(name)
    /\ (i = 1 \/ name[i - 1] \in Separators)
    /\ Lower(SubSeq(name, i, i + 3)) = S_dirdash
    /\ name[i + 4] \in Letters
    /\ name[i + 5] \in Letters
    /\ (i + 5 = Len(name) \/ name[i + 6] \in Separators)

Min(S) == CHOOSE x \in S : \A y \in S : x <= y

\* find_dir_from_name(path), on path.name.
find_dir_from_name(name) ==
    LET ms == {i \in 1..Len(name) : DIR_TOKEN_RE(name, i)}
        low == <<"_">> \o Lower(name) \o <<"_">>
        hits == {k \in 1..Len(ALT_DIR_HINTS) : Contains(low, ALT_DIR_HINTS[k].hint)}
    IN  IF ms # {} THEN Upper(SubSeq(name, Min(ms) + 4, Min(ms) + 5))
        ELSE IF hits # {} THEN ALT_DIR_HINTS[Min(hits)].val
        ELSE None

\* infer_ped_from_dir(dir_token)
infer_ped_from_dir(dir_token) ==
    IF dir_token = None THEN None
    ELSE LET ks == {k \in 1..Len(PED_MAP) : PED_MAP[k].key = Upper(dir_token)}
         IN  IF ks # {} THEN PED_MAP[Min(ks)].val ELSE None

\* str(n) of a natural number.
RECURSIVE IntToStr(_)
IntToStr(n) ==
    IF n < 10 THEN <<Ascii[6 + n]>>
    ELSE IntToStr(n \div 10) \o <<Ascii[6 + (n % 10)]>>

\* int(round(v)) of a number given in tenths: halves go to the even integer.
RoundTenths(v) ==
    LET q == v \div 10
        r == v % 10
    IN  IF r < 5 THEN q
        ELSE IF r > 5 THEN q + 1
        ELSE IF q % 2 = 0 THEN q ELSE q + 1

\* Counter(nz).most_common(1)[0][0]: the largest count, and among equal
\* counts the value that occurs first in nz.
MostCommon(nz) ==
    LET count(x) == Cardinality({i \in 1..Len(nz) : nz[i] = x})
        first(x) == Min({i \in 1..Len(nz) : nz[i] = x})
        vals == {nz[i] : i \in 1..Len(nz)}
    IN  CHOOSE x \in vals :
            \A y \in vals \ {x} :
                \/ count(x) > count(y)
                \/ count(x) = count(y) /\ first(x) < first(y)

\* infer_primary_bval_from_bvalfile(bval_path): exists tells whether the file
\* is there, vals are its numbers in tenths.
infer_primary_bval_from_bvalfile(exists, vals) ==
    IF ~exists THEN None
    ELSE LET big == SelectSeq(vals, LAMBDA v : v > 100)
             nz == [i \in 1..Len(big) |-> RoundTenths(big[i])]
         IN  IF nz = << >> THEN <<"0">> ELSE IntToStr(MostCommon(nz))

\* The run of digits that starts at position i of the name.
RECURSIVE DigitRun(_, _)
DigitRun(name, i) ==
    IF i <= Len(name) /\ name[i] \in Digits
    THEN <<name[i]>> \o DigitRun(name, i + 1)
    ELSE << >>

\* BVAL_TOKEN_RE = (?:^|[_-])b(\d{3,5})(?:[^0-9]|$), IGNORECASE: group(1) of
\* the first match, or None.
BVAL_TOKEN_RE(name) ==
    LET ok(i) == /\ (i = 1 \/ name[i - 1] \in Separators)
                 /\ LowerChar(name[i]) = "b"
                 /\ Len(DigitRun(name, i + 1)) \in 3..5
        ms == {i \in 1..Len(name) : ok(i)}
    IN  IF ms # {} THEN DigitRun(name, Min(ms) + 1) ELSE None

(***************************************************************************)
(* Canonical Namer                                                         *)
(***************************************************************************)

S_acq == <<"_", "a", "c", "q", "-">>
S_dir == <<"_", "d", "i", "r", "-">>
S_dwi == <<"_", "d", "w", "i">>
S_epi == <<"_", "e", "p", "i">>
S_T1w == <<"_", "T", "1", "w">>
S_fwd == <<"f", "w", "d">>
S_rev == <<"r", "e", "v">>

\* f"{niicount:02d}"
Fmt02d(n) == IF n < 10 THEN <<"0">> \o IntToStr(n) ELSE IntToStr(n)

strict_dwi_bids_name(subj, acq_token, dir_token, suffix) ==
    subj \o S_acq \o acq_token \o S_dir \o dir_token \o S_dwi \o suffix

strict_fmap_bids_name(subj, acq_token, dir_token, suffix) ==
    subj \o S_acq \o acq_token \o S_dir \o dir_token \o S_epi \o suffix

strict_t1w_bids_name(subj, suffix) == subj \o S_T1w \o suffix

\* The draft's templates put a "b" before the shell value.
draft_strict_dwi_bids_name(subj, bval, dir_token, suffix) ==
    subj \o S_acq \o <<"b">> \o bval \o S_dir \o dir_token \o S_dwi \o suffix

draft_strict_fmap_bids_name(subj, bval, dir_token, suffix) ==
    subj \o S_acq \o <<"b">> \o bval \o S_dir \o dir_token \o S_epi \o suffix

(***************************************************************************)
(* Registry Writer                                                         *)
(*                                                                         *)
(* A registry file is [exists, lines]: lines are the text lines of the     *)
(* file, without their line ends.                                          *)
(***************************************************************************)

S_participant_id ==
    <<"p", "a", "r", "t", "i", "c", "i", "p", "a", "n", "t", "_", "i", "d">>
S_xnat_subject ==
    <<"x", "n", "a", "t", "_", "s", "u", "b", "j", "e", "c", "t">>
S_bids_subject ==
    <<"b", "i", "d", "s", "_", "s", "u", "b", "j", "e", "c", "t">>

NoFile == [exists |-> FALSE, lines |-> << >>]

\* s.split("\t")
RECURSIVE Split(_, _)
Split(s, sep) ==
    LET hits == {i \in 1..Len(s) : s[i] = sep}
    IN  IF hits = {} THEN <<s>>
        ELSE <<SubSeq(s, 1, Min(hits) - 1)>>
             \o Split(SubSeq(s, Min(hits) + 1, Len(s)), sep)

\* "\t".join(fields)
RECURSIVE Join(_, _)
Join(fields, sep) ==
    IF fields = << >> THEN << >>
    ELSE IF Len(fields) = 1 THEN fields[1]
    ELSE fields[1] \o <<sep>> \o Join(Tail(fields), sep)

\* a < b for tuples of strings, as sorted() compares them.
RECURSIVE TupleLess(_, _)
TupleLess(a, b) ==
    IF b = << >> THEN FALSE
    ELSE IF a = << >> THEN TRUE
    ELSE IF Head(a) # Head(b) THEN StrLess(Head(a), Head(b))
    ELSE TupleLess(Tail(a), Tail(b))

RECURSIVE SortTuples(_)
SortTuples(S) ==
    IF S = {} THEN << >>
    ELSE LET m == CHOOSE x \in S : \A y \in S \ {x} : TupleLess(x, y)
         IN  <<m>> \o SortTuples(S \ {m})

\* The stripped, non-empty lines of a file.
NonBlankLines(lines) ==
    LET kept == SelectSeq(lines, LAMBDA x : Strip(x) # << >>)
    IN  [i \in 1..Len(kept) |-> Strip(kept[i])]

\* A variant for comparison: the subject is appended to the rows of the file
\* without the set and without sorted().
ParticipantRowsAppend(file, subj) ==
    IF file.exists
    THEN Append(NonBlankLines(IF file.lines = << >> THEN << >>
                              ELSE Tail(file.lines)), subj)
    ELSE <<subj>>

\* A variant for comparison: the rows of the file are not read back.
ParticipantRowsOnlyNew(file, subj) == <<subj>>

\* bidsify, participants.tsv block: the rows that get written.
ParticipantRows(file, subj) ==
    IF file.exists
    THEN LET rest == NonBlankLines(IF file.lines = << >> THEN << >>
                                   ELSE Tail(file.lines))
             old == {rest[i] : i \in 1..Len(rest)}
         IN  SortStrs(old \cup {subj})
    ELSE <<subj>>

WriteParticipants(file, subj) ==
    [exists |-> TRUE,
     lines |-> <<S_participant_id>> \o ParticipantRows(file, subj)]

\* bidsify, subject map block: header and pairs as computed before the write.
SubjectMapPlan(file, subj_raw, subj) ==
    IF file.exists
    THEN LET nb == NonBlankLines(file.lines)
             lines == [i \in 1..Len(nb) |-> Split(nb[i], "\t")]
             existing == IF Len(lines) > 1
                         THEN {lines[i] : i \in 2..Len(lines)}
                         ELSE {}
         IN  [header |-> IF lines # << >> THEN lines[1]
                         ELSE <<S_xnat_subject, S_bids_subject>>,
              pairs |-> SortTuples(existing \cup {<<subj_raw, subj>>})]
    ELSE [header |-> <<S_xnat_subject, S_bids_subject>>,
          pairs |-> <<<<subj_raw, subj>>>>]

\* The write loop "for a,b in pairs": a row that is not a pair raises
\* ValueError; the header and the rows before it are already in the file.
WritePlan(plan) ==
    LET bad == {i \in 1..Len(plan.pairs) : Len(plan.pairs[i]) # 2}
        upto == IF bad = {} THEN Len(plan.pairs) ELSE Min(bad) - 1
    IN  [ok |-> bad = {},
         file |-> [exists |-> TRUE,
                   lines |-> <<Join(plan.header, "\t")>>
                             \o [i \in 1..upto |-> Join(plan.pairs[i], "\t")]]]

WriteSubjectMap(file, subj_raw, subj) ==
    WritePlan(SubjectMapPlan(file, subj_raw, subj))

(***************************************************************************)
(* Runs: the arguments of one invocation                                   *)
(***************************************************************************)

\* Bounds of the model.
MaxRuns == 2
MaxDwi == 3

\* Raw subject labels given on the command line.
Labels == { <<"a">>, <<" ", "a">>, <<"b">> }

\* Lists of diffusion series given as --dwi_niigzs (numbers of InputSets).
DwiArgLists ==
    { l \in { <<1>>, <<1, 2>>, <<2, 1>>, <<1, 3>>, <<1, 4>>, <<1, 5>>,
              <<1, 2, 10>>, <<10, 2, 1>>, <<2, 1, 10, 4>> } :
        Len(l) <= MaxDwi }

\* The arguments of a run.  pipe: which script; dwi, rpe, t1: the declared
\* series; fs_ok: whether the FreeSurfer source directory is there; label:
\* the raw subject label; indir: the flat input directory of the draft.
DefaultCfg(pipe) ==
    [pipe |-> pipe, dwi |-> <<1, 2>>, rpe |-> 6, t1 |-> 8, fs_ok |-> TRUE,
     label |-> <<"a">>, indir |-> "A"]

\* Each set of arguments differs from the default in one argument.
DeclaredConfigs(pipe) ==
    {[DefaultCfg(pipe) EXCEPT !.dwi = l] : l \in DwiArgLists}
    \cup {[DefaultCfg(pipe) EXCEPT !.rpe = 7]}
    \cup {[DefaultCfg(pipe) EXCEPT !.t1 = 9]}
    \cup {[DefaultCfg(pipe) EXCEPT !.label = s] : s \in Labels}

Configs ==
    DeclaredConfigs("main")
    \cup {[DefaultCfg("main") EXCEPT !.fs_ok = FALSE]}
    \cup DeclaredConfigs("func")
    \cup {[DefaultCfg("draft") EXCEPT !.fs_ok = FALSE, !.label = s] : s \in Labels}
    \cup {[DefaultCfg("draft") EXCEPT !.fs_ok = FALSE, !.indir = "B"]}
    \cup {DefaultCfg("draft")}

NoCfg == [DefaultCfg("none") EXCEPT !.dwi = << >>]

(***************************************************************************)
(* State                                                                   *)
(***************************************************************************)

VARIABLES
    staged,               \* OUTPUTS/INPUTS/{DWI,fmap,T1w}: name -> content
    bids,                 \* OUTPUTS/BIDS: <<subject, folder, name>> -> content
    dataset_description,  \* whether BIDS/dataset_description.json is written
    participants,         \* OUTPUTS/BIDS/participants.tsv
    submap,               \* OUTPUTS/bids_subject_map.tsv
    fs_out,               \* whether OUTPUTS/SUBJECT exists
    run,                  \* the invocation in progress and its local variables
    hist,                 \* what the runs did so far (for the properties)
    norm,                 \* a metadata file and the normalizer applied to it
    cls,                  \* a file name and the classifier applied to it
    bv,                   \* a .bval file and the shell inferred from it
    race                  \* two invocations at work on the registries of one root

vars == <<staged, bids, dataset_description, participants, submap, fs_out,
          run, hist, norm, cls, bv, race>>

IdleRun ==
    [phase |-> "idle", cfg |-> NoCfg, niicount |-> 0, intended_for |-> << >>,
     todo_dwi |-> << >>, todo_fmap |-> << >>]

NoLast == [cfg |-> NoCfg, outcome |-> "none", err |-> ""]

InitHist ==
    [n |-> 0,
     last |-> NoLast,
     before |-> [participants |-> NoFile, submap |-> NoFile],
     subjects |-> {},
     pairs |-> {},
     first |-> [cfg |-> NoCfg, outcome |-> "none", bids |-> NoFiles,
                participants |-> NoFile, submap |-> NoFile],
     made |-> {},
     failed |-> {},
     fmap_calls |-> << >>]

NoCall == [fn |-> "none", rev |-> FALSE, ped |-> None, intended |-> << >>,
           before |-> EmptyMeta, status |-> "new"]
NormIdle == [fn |-> "none", rev |-> FALSE, ped |-> None, intended |-> << >>,
             before |-> EmptyMeta, file |-> EmptyMeta, status |-> "new",
             calls |-> 0, prev |-> NoCall]
ClsIdle == [name |-> << >>, segs |-> 0, result |-> None, done |-> FALSE]
BvIdle == [exists |-> FALSE, vals |-> << >>, result |-> None, done |-> FALSE]
RaceIdle == [pc |-> << >>, cfg |-> << >>, rows |-> << >>, plan |-> << >>,
             serial |-> TRUE]

InitFiles ==
    /\ staged = [DWI |-> NoFiles, fmap |-> NoFiles, T1w |-> NoFiles]
    /\ bids = NoFiles
    /\ dataset_description = FALSE
    /\ participants = NoFile
    /\ submap = NoFile
    /\ fs_out = FALSE
    /\ run = IdleRun
    /\ hist = InitHist

Init ==
    InitFiles /\ norm = NormIdle /\ cls = ClsIdle /\ bv = BvIdle /\ race = RaceIdle

subj_of(cfg) == S_sub \o sanitize_bids_subj(cfg.label)

\* The record of a finished run; b, p, m are the tree and the registries it
\* leaves.
Finish(h, cfg, outcome, err, b, p, m) ==
    [h EXCEPT !.last = [cfg |-> cfg, outcome |-> outcome, err |-> err],
              !.first = IF h.n = 1
                        THEN [cfg |-> cfg, outcome |-> outcome, bids |-> b,
                              participants |-> p, submap |-> m]
                        ELSE @]

\* main(): the arguments are parsed and the first step of the script is next.
StartRun ==
    /\ run.phase = "idle"
    /\ hist.n < MaxRuns
    /\ \E cfg \in Configs :
          /\ run' = [IdleRun EXCEPT
                        !.cfg = cfg,
                        !.phase = IF cfg.pipe = "func" THEN "dwi" ELSE "stage",
                        !.todo_dwi = IF cfg.pipe = "func" THEN cfg.dwi ELSE << >>]
          /\ hist' = [hist EXCEPT
                        !.n = @ + 1,
                        !.before = [participants |-> participants,
                                    submap |-> submap],
                        !.made = {},
                        !.failed = {},
                        !.fmap_calls = << >>]
    /\ UNCHANGED <<staged, bids, dataset_description, participants, submap,
                   fs_out, norm, cls, bv, race>>

(***************************************************************************)
(* bidsify_qsiprep.py: stage_from_flat_inputs                              *)
(***************************************************************************)

\* One copy_file of the staging loops: companion ext of input set id goes to
\* OUTPUTS/INPUTS/<dir>/<name>.
SetOps(id, exts, dir) ==
    [i \in 1..Len(exts) |->
        [id |-> id, ext |-> exts[i], dir |-> dir,
         name |-> IF dir = "T1w" THEN S_t1 \o exts[i]
                  ELSE InputSets[id].base \o exts[i]]]

RECURSIVE DwiOps(_)
DwiOps(ids) ==
    IF ids = << >> THEN << >>
    ELSE SetOps(Head(ids), DwiExts, "DWI") \o DwiOps(Tail(ids))

\* What a copy leaves in the record of the files a run made: the destination
\* and the input set the bytes come from.
Made(path, id) == [path |-> path, id |-> id]

\* The copies in order; the first source that does not exist raises, and the
\* copies made before it stay.
RECURSIVE CopyAll(_, _, _)
CopyAll(st, made, ops) ==
    IF ops = << >> THEN [ok |-> TRUE, staged |-> st, made |-> made]
    ELSE LET op == Head(ops)
         IN  IF SrcExists(op.id, op.ext)
             THEN CopyAll([st EXCEPT ![op.dir] =
                              Put(@, op.name, InputFile(op.id, op.ext))],
                          made \cup {Made(<<None, op.dir, op.name>>, op.id)},
                          Tail(ops))
             ELSE [ok |-> FALSE, staged |-> st, made |-> made]

\* stage_from_flat_inputs(dwi_niigzs, rpe_niigz, t1_niigz, fs_dir, outputs_dir)
\* shutil.copytree raises when the source is missing or OUTPUTS/SUBJECT exists.
stage_from_flat_inputs(cfg, st, fsout, made) ==
    LET c == CopyAll(st, made,
                     DwiOps(cfg.dwi) \o SetOps(cfg.rpe, DwiExts, "fmap")
                                     \o SetOps(cfg.t1, T1Exts, "T1w"))
    IN  IF ~c.ok
        THEN [ok |-> FALSE, err |-> "MissingCompanionFile",
              staged |-> c.staged, fs_out |-> fsout, made |-> c.made]
        ELSE IF ~cfg.fs_ok \/ fsout
        THEN [ok |-> FALSE, err |-> "FsCopyFailed",
              staged |-> c.staged, fs_out |-> fsout, made |-> c.made]
        ELSE [ok |-> TRUE, err |-> "",
              staged |-> c.staged, fs_out |-> TRUE, made |-> c.made]

MainStage ==
    /\ run.phase = "stage"
    /\ run.cfg.pipe = "main"
    /\ LET r == stage_from_flat_inputs(run.cfg, staged, fs_out, hist.made)
       IN  /\ staged' = r.staged
           /\ fs_out' = r.fs_out
           /\ IF r.ok
              THEN /\ run' = [run EXCEPT !.phase = "bids",
                                         !.todo_dwi = GlobNii(r.staged.DWI),
                                         !.todo_fmap = GlobNii(r.staged.fmap)]
                   /\ hist' = [hist EXCEPT !.made = r.made]
              ELSE /\ run' = IdleRun
                   /\ hist' = Finish([hist EXCEPT !.made = r.made], run.cfg,
                                     "abort", r.err, bids, participants, submap)
    /\ UNCHANGED <<bids, dataset_description, participants, submap, norm, cls,
                   bv, race>>

(***************************************************************************)
(* bidsify_qsiprep.py: bidsify                                             *)
(***************************************************************************)

S_dwislash == <<"d", "w", "i", "/">>

\* A companion that exists in the staging directory is copied to dst.
CopyIfStaged(b, dir, src, dst) ==
    IF src \in DOMAIN dir THEN Put(b, dst, dir[src]) ELSE b

\* One pass of the loop over sorted(dwi_in.glob("*.nii.gz")), lines 229-244.
MainDwiIter(b, dwi_in, subj, niicount, nii) ==
    LET base == Base(nii)
        acq_token == Fmt02d(niicount)
        out_name == strict_dwi_bids_name(subj, acq_token, S_fwd, S_nii)
        dst(ext) == <<subj, "dwi",
                      strict_dwi_bids_name(subj, acq_token, S_fwd, ext)>>
        b1 == Put(b, dst(S_nii), dwi_in[nii])
        b2 == CopyIfStaged(b1, dwi_in, base \o S_bval, dst(S_bval))
        b3 == CopyIfStaged(b2, dwi_in, base \o S_bvec, dst(S_bvec))
        src_json == base \o S_json
        b4 == CopyIfStaged(b3, dwi_in, src_json, dst(S_json))
        u == update_dwi_json(dwi_in[src_json].meta, FALSE)
        wrote == {dst(S_nii)} \cup
                 {dst(e) : e \in {x \in {S_bval, S_bvec, S_json} :
                                     base \o x \in DOMAIN dwi_in}}
    IN  IF src_json \notin DOMAIN dwi_in
        THEN [ok |-> FALSE, err |-> "MissingCompanionFile", bids |-> b4,
              wrote |-> wrote, out_name |-> out_name]
        ELSE IF ~u.ok
        THEN [ok |-> FALSE, err |-> "UnresolvableDirection", bids |-> b4,
              wrote |-> wrote, out_name |-> out_name]
        ELSE [ok |-> TRUE, err |-> "",
              bids |-> Put(b4, dst(S_json),
                           [b4[dst(S_json)] EXCEPT !.meta = u.meta]),
              wrote |-> wrote, out_name |-> out_name]

\* intended_for.append(f"dwi/{out_name}"), line 244.
AppendIntended(intended_for, out_name) ==
    Append(intended_for, S_dwislash \o out_name)

\* A variant for comparison: the reverse-reference loop may start while
\* diffusion images are still to be staged.
FmapLoopAnytime(r) == TRUE

\* The loop over the reverse-reference images (line 250) starts when the
\* loop over the diffusion images (line 229) has ended.
FmapLoopReached(r) == r.todo_dwi = << >>

MadeBy(wrote, id) == {Made(pth, id) : pth \in wrote}

\* The history of a run that stops in the pass that wrote these files.
Failed(h, wrote) == [h EXCEPT !.failed = wrote]

\* A variant for comparison: participants.tsv is rewritten at the top of each
\* pass of the diffusion loop instead of after the T1w block.
MainDwiRegistryFirst ==
    /\ run.phase = "bids"
    /\ run.cfg.pipe = "main"
    /\ run.todo_dwi # << >>
    /\ participants' = WriteParticipants(participants, subj_of(run.cfg))
    /\ LET nii == Head(run.todo_dwi)
           r == MainDwiIter(bids, staged.DWI, subj_of(run.cfg),
                            run.niicount + 1, nii)
       IN  /\ bids' = r.bids
           /\ IF r.ok
              THEN /\ run' = [run EXCEPT
                                !.niicount = @ + 1,
                                !.todo_dwi = Tail(@),
                                !.intended_for = AppendIntended(@, r.out_name)]
                   /\ hist' = [hist EXCEPT !.subjects = @ \cup {subj_of(run.cfg)}]
              ELSE /\ run' = IdleRun
                   /\ hist' = Finish(Failed(hist, r.wrote), run.cfg, "abort",
                                     r.err, r.bids, participants, submap)
    /\ UNCHANGED <<staged, dataset_description, submap, fs_out, norm, cls, bv, race>>

MainDwi ==
    /\ run.phase = "bids"
    /\ run.cfg.pipe = "main"
    /\ run.todo_dwi # << >>
    /\ LET nii == Head(run.todo_dwi)
           r == MainDwiIter(bids, staged.DWI, subj_of(run.cfg),
                            run.niicount + 1, nii)
           h == [hist EXCEPT !.made = @ \cup MadeBy(r.wrote, staged.DWI[nii].origin[1])]
       IN  /\ bids' = r.bids
           /\ IF r.ok
              THEN /\ run' = [run EXCEPT
                                !.niicount = @ + 1,
                                !.todo_dwi = Tail(@),
                                !.intended_for = AppendIntended(@, r.out_name)]
                   /\ hist' = h
              ELSE /\ run' = IdleRun
                   /\ hist' = Finish(Failed(h, r.wrote), run.cfg, "abort",
                                     r.err, r.bids, participants, submap)
    /\ UNCHANGED <<staged, dataset_description, participants, submap, fs_out,
                   norm, cls, bv, race>>

\* One pass of the loop over sorted(fmap_in.glob("*.nii.gz")), lines 250-263.
MainFmapIter(b, fmap_in, subj, niicount, fmap_nii, intended_for) ==
    LET base == Base(fmap_nii)
        acq_token == Fmt02d(niicount)
        dst(ext) == <<subj, "fmap",
                      strict_fmap_bids_name(subj, acq_token, S_rev, ext)>>
        b1 == Put(b, dst(S_nii), fmap_in[fmap_nii])
        src_json == base \o S_json
        b2 == CopyIfStaged(b1, fmap_in, src_json, dst(S_json))
        u == update_fmap_json(fmap_in[src_json].meta, TRUE, intended_for)
        wrote == {dst(S_nii)} \cup
                 (IF src_json \in DOMAIN fmap_in THEN {dst(S_json)} ELSE {})
    IN  IF src_json \notin DOMAIN fmap_in
        THEN [ok |-> FALSE, err |-> "MissingCompanionFile", bids |-> b2,
              wrote |-> wrote, called |-> FALSE, json |-> dst(S_json)]
        ELSE IF ~u.ok
        THEN [ok |-> FALSE, err |-> "UnresolvableDirection", bids |-> b2,
              wrote |-> wrote, called |-> TRUE, json |-> dst(S_json)]
        ELSE [ok |-> TRUE, err |-> "",
              bids |-> Put(b2, dst(S_json),
                           [b2[dst(S_json)] EXCEPT !.meta = u.meta]),
              wrote |-> wrote, called |-> TRUE, json |-> dst(S_json)]

\* What a call of update_fmap_json leaves in the history: the file, whether
\* it was saved, and how many diffusion images were still to be staged.
FmapCall(r, pending) ==
    [json |-> r.json, saved |-> r.ok, pending |-> pending]

\* A variant for comparison: niicount is set back to 0 before the loop over
\* the reverse-reference images (the assignment that line 249 comments out).
MainFmapResetCount ==
    /\ run.phase = "bids"
    /\ run.cfg.pipe = "main"
    /\ FmapLoopReached(run)
    /\ run.todo_fmap # << >>
    /\ LET fmap_nii == Head(run.todo_fmap)
           done == Len(GlobNii(staged.fmap)) - Len(run.todo_fmap)
           r == MainFmapIter(bids, staged.fmap, subj_of(run.cfg),
                             done + 1, fmap_nii, run.intended_for)
           h == [hist EXCEPT
                   !.made = @ \cup MadeBy(r.wrote, staged.fmap[fmap_nii].origin[1]),
                   !.fmap_calls = IF r.called
                                  THEN Append(@, FmapCall(r, Len(run.todo_dwi)))
                                  ELSE @]
       IN  /\ bids' = r.bids
           /\ IF r.ok
              THEN /\ run' = [run EXCEPT !.niicount = done + 1,
                                         !.todo_fmap = Tail(@)]
                   /\ hist' = h
              ELSE /\ run' = IdleRun
                   /\ hist' = Finish(Failed(h, r.wrote), run.cfg, "abort",
                                     r.err, r.bids, participants, submap)
    /\ UNCHANGED <<staged, dataset_description, participants, submap, fs_out,
                   norm, cls, bv, race>>

MainFmap ==
    /\ run.phase = "bids"
    /\ run.cfg.pipe = "main"
    /\ FmapLoopReached(run)
    /\ run.todo_fmap # << >>
    /\ LET fmap_nii == Head(run.todo_fmap)
           r == MainFmapIter(bids, staged.fmap, subj_of(run.cfg),
                             run.niicount + 1, fmap_nii, run.intended_for)
           h == [hist EXCEPT
                   !.made = @ \cup MadeBy(r.wrote, staged.fmap[fmap_nii].origin[1]),
                   !.fmap_calls = IF r.called
                                  THEN Append(@, FmapCall(r, Len(run.todo_dwi)))
                                  ELSE @]
       IN  /\ bids' = r.bids
           /\ IF r.ok
              THEN /\ run' = [run EXCEPT !.niicount = @ + 1,
                                         !.todo_fmap = Tail(@)]
                   /\ hist' = h
              ELSE /\ run' = IdleRun
                   /\ hist' = Finish(Failed(h, r.wrote), run.cfg, "abort",
                                     r.err, r.bids, participants, submap)
    /\ UNCHANGED <<staged, dataset_description, participants, submap, fs_out,
                   norm, cls, bv, race>>

\* The T1w block, lines 266-275.
MainT1Step(b, t1_in, subj) ==
    LET t1 == S_t1 \o S_nii
        t1_json == S_t1 \o S_json
        dst(ext) == <<subj, "anat", strict_t1w_bids_name(subj, ext)>>
        b1 == CopyIfStaged(b, t1_in, t1, dst(S_nii))
        b2 == CopyIfStaged(b1, t1_in, t1_json, dst(S_json))
    IN  IF t1 \notin DOMAIN t1_in
        THEN [ok |-> FALSE, err |-> "MissingCompanionFile", bids |-> b,
              wrote |-> {}]
        ELSE IF t1_json \notin DOMAIN t1_in
        THEN [ok |-> FALSE, err |-> "MissingCompanionFile", bids |-> b1,
              wrote |-> {dst(S_nii)}]
        ELSE [ok |-> TRUE, err |-> "", bids |-> b2,
              wrote |-> {dst(S_nii), dst(S_json)}]

MainT1 ==
    /\ run.phase = "bids"
    /\ run.cfg.pipe = "main"
    /\ run.todo_dwi = << >>
    /\ run.todo_fmap = << >>
    /\ LET r == MainT1Step(bids, staged.T1w, subj_of(run.cfg))
           h == [hist EXCEPT !.made = @ \cup
                    IF r.wrote = {} THEN {}
                    ELSE MadeBy(r.wrote, staged.T1w[S_t1 \o S_nii].origin[1])]
       IN  /\ bids' = r.bids
           /\ IF r.ok
              THEN /\ run' = [run EXCEPT !.phase = "registry"]
                   /\ hist' = h
              ELSE /\ run' = IdleRun
                   /\ hist' = Finish(Failed(h, r.wrote), run.cfg, "abort",
                                     r.err, r.bids, participants, submap)
    /\ UNCHANGED <<staged, dataset_description, participants, submap, fs_out,
                   norm, cls, bv, race>>

\* The dataset-level files and the subject map, lines 278-301.
MainRegistry ==
    /\ run.phase = "registry"
    /\ run.cfg.pipe = "main"
    /\ LET subj == subj_of(run.cfg)
           p == WriteParticipants(participants, subj)
           m == WriteSubjectMap(submap, run.cfg.label, subj)
           h == [hist EXCEPT
                   !.subjects = @ \cup {subj},
                   !.pairs = IF m.ok THEN @ \cup {<<run.cfg.label, subj>>}
                             ELSE @]
       IN  /\ dataset_description' = TRUE
           /\ participants' = p
           /\ submap' = m.file
           /\ run' = IdleRun
           /\ hist' = Finish(h, run.cfg, IF m.ok THEN "ok" ELSE "abort",
                             IF m.ok THEN "" ELSE "RegistryRowError",
                             bids, p, m.file)
    /\ UNCHANGED <<staged, bids, fs_out, norm, cls, bv, race>>

(***************************************************************************)
(* bidsify_qsiprep_func.py: bidsify                                        *)
(***************************************************************************)

\* The loop "for ext in [.nii.gz, .bval, .bvec, .json]" of one declared
\* series, lines 132-139 and 148-155: a missing source raises, and so does
\* update_dwi_json; what was copied before stays.
RECURSIVE FuncCopySet(_, _, _, _, _, _, _, _)
FuncCopySet(b, wrote, id, exts, subj, acq_token, dir_token, reverse_pedir) ==
    IF exts = << >>
    THEN [ok |-> TRUE, err |-> "", bids |-> b, wrote |-> wrote]
    ELSE LET ext == Head(exts)
             dst == <<subj, "dwi",
                      strict_dwi_bids_name(subj, acq_token, dir_token, ext)>>
             b1 == Put(b, dst, InputFile(id, ext))
             u == func_update_dwi_json(InputFile(id, ext).meta, reverse_pedir)
         IN  IF ~SrcExists(id, ext)
             THEN [ok |-> FALSE, err |-> "MissingCompanionFile", bids |-> b,
                   wrote |-> wrote]
             ELSE IF ext # S_json
             THEN FuncCopySet(b1, wrote \cup {dst}, id, Tail(exts), subj,
                              acq_token, dir_token, reverse_pedir)
             ELSE IF ~u.ok
             THEN [ok |-> FALSE, err |-> "UnresolvableDirection", bids |-> b1,
                   wrote |-> wrote \cup {dst}]
             ELSE FuncCopySet(Put(b1, dst, [b1[dst] EXCEPT !.meta = u.meta]),
                              wrote \cup {dst}, id, Tail(exts), subj,
                              acq_token, dir_token, reverse_pedir)

\* One pass of the loop over args.dwi_niigzs, lines 126-139.
FuncDwi ==
    /\ run.phase = "dwi"
    /\ run.cfg.pipe = "func"
    /\ run.todo_dwi # << >>
    /\ LET id == Head(run.todo_dwi)
           r == FuncCopySet(bids, {}, id, DwiExts, subj_of(run.cfg),
                            Fmt02d(run.niicount + 1), S_fwd, FALSE)
           h == [hist EXCEPT !.made = @ \cup MadeBy(r.wrote, id)]
       IN  /\ bids' = r.bids
           /\ IF r.ok
              THEN /\ run' = [run EXCEPT !.niicount = @ + 1,
                                         !.todo_dwi = Tail(@)]
                   /\ hist' = h
              ELSE /\ run' = IdleRun
                   /\ hist' = Finish(Failed(h, r.wrote), run.cfg, "abort",
                                     r.err, r.bids, participants, submap)
    /\ UNCHANGED <<staged, dataset_description, participants, submap, fs_out,
                   norm, cls, bv, race>>

\* The reverse-reference series, lines 142-155.
FuncRpe ==
    /\ run.phase = "dwi"
    /\ run.cfg.pipe = "func"
    /\ run.todo_dwi = << >>
    /\ LET id == run.cfg.rpe
           r == FuncCopySet(bids, {}, id, DwiExts, subj_of(run.cfg),
                            Fmt02d(run.niicount + 1), S_rev, TRUE)
           h == [hist EXCEPT !.made = @ \cup MadeBy(r.wrote, id)]
       IN  /\ bids' = r.bids
           /\ IF r.ok
              THEN /\ run' = [run EXCEPT !.niicount = @ + 1, !.phase = "t1"]
                   /\ hist' = h
              ELSE /\ run' = IdleRun
                   /\ hist' = Finish(Failed(h, r.wrote), run.cfg, "abort",
                                     r.err, r.bids, participants, submap)
    /\ UNCHANGED <<staged, dataset_description, participants, submap, fs_out,
                   norm, cls, bv, race>>

\* The T1w loop, lines 158-166.
RECURSIVE FuncT1Copy(_, _, _, _, _)
FuncT1Copy(b, wrote, id, exts, subj) ==
    IF exts = << >>
    THEN [ok |-> TRUE, err |-> "", bids |-> b, wrote |-> wrote]
    ELSE LET ext == Head(exts)
             dst == <<subj, "anat", strict_t1w_bids_name(subj, ext)>>
         IN  IF SrcExists(id, ext)
             THEN FuncT1Copy(Put(b, dst, InputFile(id, ext)),
                             wrote \cup {dst}, id, Tail(exts), subj)
             ELSE [ok |-> FALSE, err |-> "MissingCompanionFile", bids |-> b,
                   wrote |-> wrote]

FuncT1 ==
    /\ run.phase = "t1"
    /\ run.cfg.pipe = "func"
    /\ LET r == FuncT1Copy(bids, {}, run.cfg.t1, T1Exts, subj_of(run.cfg))
           h == [hist EXCEPT !.made = @ \cup MadeBy(r.wrote, run.cfg.t1)]
       IN  /\ bids' = r.bids
           /\ IF r.ok
              THEN /\ run' = [run EXCEPT !.phase = "registry"]
                   /\ hist' = h
              ELSE /\ run' = IdleRun
                   /\ hist' = Finish(Failed(h, r.wrote), run.cfg, "abort",
                                     r.err, r.bids, participants, submap)
    /\ UNCHANGED <<staged, dataset_description, participants, submap, fs_out,
                   norm, cls, bv, race>>

\* The dataset-level files, lines 169-179 (the subject map is commented out).
FuncRegistry ==
    /\ run.phase = "registry"
    /\ run.cfg.pipe = "func"
    /\ LET subj == subj_of(run.cfg)
           p == WriteParticipants(participants, subj)
       IN  /\ dataset_description' = TRUE
           /\ participants' = p
           /\ run' = IdleRun
           /\ hist' = Finish([hist EXCEPT !.subjects = @ \cup {subj}],
                             run.cfg, "ok", "", bids, p, submap)
    /\ UNCHANGED <<staged, bids, submap, fs_out, norm, cls, bv, race>>

(***************************************************************************)
(* bidsify_qsiprep_draft.py: stage_from_flat_inputs                        *)
(***************************************************************************)

S_t1map == <<"t", "1", "m", "a", "p">>
S_1000 == <<"1", "0", "0", "0">>

\* The input sets of a flat directory, and sorted(inputs_dir.glob("*.nii.gz")).
DirSets(indir) ==
    {id \in 1..Len(InputSets) :
        InputSets[id].dir = indir /\ S_nii \in InputSets[id].exts}
DirNiis(indir) == SortStrs({InputSets[id].base \o S_nii : id \in DirSets(indir)})
IdOfNii(indir, name) ==
    CHOOSE id \in DirSets(indir) : InputSets[id].base \o S_nii = name

\* The copies of one of the two classification loops, lines 119-134: the
\* companions of each image whose name is classified as dir_token.
RECURSIVE DraftOps(_, _, _, _)
DraftOps(indir, niis, dir_token, dir) ==
    IF niis = << >> THEN << >>
    ELSE (IF /\ ~StartsWith(Lower(Head(niis)), S_t1)
             /\ find_dir_from_name(Head(niis)) = dir_token
          THEN SetOps(IdOfNii(indir, Head(niis)), DwiExts, dir)
          ELSE << >>)
         \o DraftOps(indir, Tail(niis), dir_token, dir)

\* "if src.exists(): copy_file(src, out / src.name)": a companion that does
\* not exist is passed over.
RECURSIVE CopyExisting(_, _, _)
CopyExisting(st, made, ops) ==
    IF ops = << >> THEN [staged |-> st, made |-> made]
    ELSE IF SrcExists(Head(ops).id, Head(ops).ext)
    THEN CopyExisting([st EXCEPT ![Head(ops).dir] =
                          Put(@, Head(ops).name,
                              InputFile(Head(ops).id, Head(ops).ext))],
                      made \cup {Made(<<None, Head(ops).dir, Head(ops).name>>,
                                      Head(ops).id)},
                      Tail(ops))
    ELSE CopyExisting(st, made, Tail(ops))

\* The T1 block, lines 137-147, on the images of the directory whose name
\* holds "t1".  With no candidate, t1_json_src is used before it is bound
\* and the script stops there.
DraftT1Candidates(indir) ==
    SelectSeq(DirNiis(indir),
              LAMBDA n : /\ Contains(Lower(n), S_t1)
                         /\ ~StartsWith(Lower(n), S_t1map))

DraftStageT1(c, id) ==
    CopyExisting(
        [c.staged EXCEPT !.T1w = Put(@, S_t1 \o S_nii, InputFile(id, S_nii))],
        c.made \cup {Made(<<None, "T1w", S_t1 \o S_nii>>, id)},
        <<[id |-> id, ext |-> S_json, dir |-> "T1w", name |-> S_t1 \o S_json]>>)

\* The FreeSurfer block, lines 150-159: inputs_dir/SUBJECT, when it is a
\* directory, replaces OUTPUTS/SUBJECT.
DraftStageFs(cfg, c, fsout) ==
    [ok |-> TRUE, err |-> "", staged |-> c.staged,
     fs_out |-> IF cfg.fs_ok THEN TRUE ELSE fsout, made |-> c.made]

\* stage_from_flat_inputs(inputs_dir, outputs_dir) of the draft.
draft_stage_from_flat_inputs(cfg, st, fsout, made) ==
    IF DraftT1Candidates(cfg.indir) = << >>
    THEN [ok |-> FALSE, err |-> "UnboundLocalError",
          staged |-> CopyExisting(st, made,
                        DraftOps(cfg.indir, DirNiis(cfg.indir), S_AP, "DWI")
                        \o DraftOps(cfg.indir, DirNiis(cfg.indir), S_PA, "fmap")).staged,
          fs_out |-> fsout,
          made |-> CopyExisting(st, made,
                        DraftOps(cfg.indir, DirNiis(cfg.indir), S_AP, "DWI")
                        \o DraftOps(cfg.indir, DirNiis(cfg.indir), S_PA, "fmap")).made]
    ELSE DraftStageFs(cfg,
            DraftStageT1(
                CopyExisting(st, made,
                    DraftOps(cfg.indir, DirNiis(cfg.indir), S_AP, "DWI")
                    \o DraftOps(cfg.indir, DirNiis(cfg.indir), S_PA, "fmap")),
                IdOfNii(cfg.indir, DraftT1Candidates(cfg.indir)[1])),
            fsout)

DraftStage ==
    /\ run.phase = "stage"
    /\ run.cfg.pipe = "draft"
    /\ LET r == draft_stage_from_flat_inputs(run.cfg, staged, fs_out, hist.made)
       IN  /\ staged' = r.staged
           /\ fs_out' = r.fs_out
           /\ IF r.ok
              THEN /\ run' = [run EXCEPT !.phase = "bids",
                                         !.todo_dwi = GlobNii(r.staged.DWI),
                                         !.todo_fmap = GlobNii(r.staged.fmap)]
                   /\ hist' = [hist EXCEPT !.made = r.made]
              ELSE /\ run' = IdleRun
                   /\ hist' = Finish([hist EXCEPT !.made = r.made], run.cfg,
                                     "abort", r.err, bids, participants, submap)
    /\ UNCHANGED <<bids, dataset_description, participants, submap, norm, cls,
                   bv, race>>

(***************************************************************************)
(* bidsify_qsiprep_draft.py: bidsify                                       *)
(***************************************************************************)

\* The acquisition token of an image, lines 179-180 and 198-199: the shell
\* of its .bval, else the b-value in its name, else the fallback.
DraftShell(dir, nii, fallback) ==
    LET bval_path == Base(nii) \o S_bval
        inferred ==
            IF bval_path \in DOMAIN dir
            THEN infer_primary_bval_from_bvalfile(
                     TRUE, InputSets[dir[bval_path].origin[1]].bvals)
            ELSE infer_primary_bval_from_bvalfile(FALSE, << >>)
    IN  IF inferred # None THEN inferred
        ELSE IF BVAL_TOKEN_RE(nii) # None THEN BVAL_TOKEN_RE(nii)
        ELSE fallback

\* save_json(dst, {"PhaseEncodingDirection": ped} if ped else {})
PedOnlyMeta(ped) ==
    IF ped # None THEN (K_PED :> StrV(ped)) ELSE EmptyMeta

\* One pass of the loop over sorted(dwi_in.glob("*.nii.gz")), lines 177-193.
DraftDwiIter(b, dwi_in, subj, nii) ==
    LET base == Base(nii)
        bval == DraftShell(dwi_in, nii, <<"0">>)
        ped == infer_ped_from_dir(S_AP)
        out_name == draft_strict_dwi_bids_name(subj, bval, S_AP, S_nii)
        dst(ext) == <<subj, "dwi",
                      draft_strict_dwi_bids_name(subj, bval, S_AP, ext)>>
        b1 == Put(b, dst(S_nii), dwi_in[nii])
        b2 == CopyIfStaged(b1, dwi_in, base \o S_bval, dst(S_bval))
        b3 == CopyIfStaged(b2, dwi_in, base \o S_bvec, dst(S_bvec))
        src_json == base \o S_json
        u == draft_update_dwi_json(dwi_in[src_json].meta, ped)
    IN  [bids |-> IF src_json \in DOMAIN dwi_in
                  THEN Put(b3, dst(S_json),
                           [dwi_in[src_json] EXCEPT !.meta = u.meta])
                  ELSE Put(b3, dst(S_json), SavedJson(PedOnlyMeta(ped))),
         wrote |-> {dst(S_nii), dst(S_json)} \cup
                   {dst(e) : e \in {x \in {S_bval, S_bvec} :
                                       base \o x \in DOMAIN dwi_in}},
         out_name |-> out_name]

DraftDwi ==
    /\ run.phase = "bids"
    /\ run.cfg.pipe = "draft"
    /\ run.todo_dwi # << >>
    /\ LET nii == Head(run.todo_dwi)
           r == DraftDwiIter(bids, staged.DWI, subj_of(run.cfg), nii)
       IN  /\ bids' = r.bids
           /\ run' = [run EXCEPT
                        !.todo_dwi = Tail(@),
                        !.intended_for = Append(@, S_dwislash \o r.out_name)]
           /\ hist' = [hist EXCEPT !.made = @ \cup
                          MadeBy(r.wrote, staged.DWI[nii].origin[1])]
    /\ UNCHANGED <<staged, dataset_description, participants, submap, fs_out,
                   norm, cls, bv, race>>

\* One pass of the loop over sorted(fmap_in.glob("*.nii.gz")), lines 196-211.
DraftFmapIter(b, fmap_in, subj, fmap_nii, intended_for) ==
    LET base == Base(fmap_nii)
        bval == DraftShell(fmap_in, fmap_nii, S_1000)
        ped == infer_ped_from_dir(S_PA)
        dst(ext) == <<subj, "fmap",
                      draft_strict_fmap_bids_name(subj, bval, S_PA, ext)>>
        b1 == Put(b, dst(S_nii), fmap_in[fmap_nii])
        src_json == base \o S_json
        u == draft_update_fmap_json(fmap_in[src_json].meta, ped, intended_for)
        synthesized == IF ped # None
                       THEN Put(K_IF :> ListV(intended_for), K_PED, StrV(ped))
                       ELSE (K_IF :> ListV(intended_for))
    IN  [bids |-> IF src_json \in DOMAIN fmap_in
                  THEN Put(b1, dst(S_json),
                           [fmap_in[src_json] EXCEPT !.meta = u.meta])
                  ELSE Put(b1, dst(S_json), SavedJson(synthesized)),
         wrote |-> {dst(S_nii), dst(S_json)}]

DraftFmap ==
    /\ run.phase = "bids"
    /\ run.cfg.pipe = "draft"
    /\ run.todo_dwi = << >>
    /\ run.todo_fmap # << >>
    /\ LET fmap_nii == Head(run.todo_fmap)
           r == DraftFmapIter(bids, staged.fmap, subj_of(run.cfg), fmap_nii,
                              run.intended_for)
       IN  /\ bids' = r.bids
           /\ run' = [run EXCEPT !.todo_fmap = Tail(@)]
           /\ hist' = [hist EXCEPT !.made = @ \cup
                          MadeBy(r.wrote, staged.fmap[fmap_nii].origin[1])]
    /\ UNCHANGED <<staged, dataset_description, participants, submap, fs_out,
                   norm, cls, bv, race>>

\* The T1w block, lines 214-219: nothing is required.
DraftT1 ==
    /\ run.phase = "bids"
    /\ run.cfg.pipe = "draft"
    /\ run.todo_dwi = << >>
    /\ run.todo_fmap = << >>
    /\ LET subj == subj_of(run.cfg)
           t1 == S_t1 \o S_nii
           dst(ext) == <<subj, "anat", strict_t1w_bids_name(subj, ext)>>
           b1 == CopyIfStaged(bids, staged.T1w, t1, dst(S_nii))
           b2 == CopyIfStaged(b1, staged.T1w, S_t1 \o S_json, dst(S_json))
           wrote == {dst(e) : e \in {x \in {S_nii, S_json} :
                                       S_t1 \o x \in DOMAIN staged.T1w}}
       IN  /\ bids' = IF t1 \in DOMAIN staged.T1w THEN b2 ELSE bids
           /\ hist' = [hist EXCEPT !.made = @ \cup
                          IF t1 \in DOMAIN staged.T1w
                          THEN MadeBy(wrote, staged.T1w[t1].origin[1])
                          ELSE {}]
    /\ run' = [run EXCEPT !.phase = "registry"]
    /\ UNCHANGED <<staged, dataset_description, participants, submap, fs_out,
                   norm, cls, bv, race>>

\* The dataset-level files and the subject map, lines 222-243.
DraftRegistry ==
    /\ run.phase = "registry"
    /\ run.cfg.pipe = "draft"
    /\ LET subj == subj_of(run.cfg)
           p == WriteParticipants(participants, subj)
           m == WriteSubjectMap(submap, run.cfg.label, subj)
           h == [hist EXCEPT
                   !.subjects = @ \cup {subj},
                   !.pairs = IF m.ok THEN @ \cup {<<run.cfg.label, subj>>}
                             ELSE @]
       IN  /\ dataset_description' = TRUE
           /\ participants' = p
           /\ submap' = m.file
           /\ run' = IdleRun
           /\ hist' = Finish(h, run.cfg, IF m.ok THEN "ok" ELSE "abort",
                             IF m.ok THEN "" ELSE "RegistryRowError",
                             bids, p, m.file)
    /\ UNCHANGED <<staged, bids, fs_out, norm, cls, bv, race>>

(***************************************************************************)
(* The Metadata Normalizer on its own: one side-car file, normalized by    *)
(* calls of the update functions of the three scripts                      *)
(***************************************************************************)

MaxCalls == 2

\* The values a key of the file may hold at the start; Absent: the key is
\* not in the file.
Absent == [t |-> "absent", s |-> << >>, n |-> 0, l |-> << >>]
EtrtOpts == {Absent, NumV(5), NumV(0)}
TrtOpts == {Absent, StrV(<< >>), NumV(0), NumV(7)}
PedOpts == {Absent, StrV(<< >>), StrV(<<" ">>), StrV(<<"j">>), StrV(<<"j", "-">>)}
PeaOpts == {Absent, StrV(<< >>), StrV(<<"j">>), StrV(<<"j", "-">>), StrV(<<"-">>)}

MetaOf(e, t, p, a) ==
    [k \in {x \in {K_ETRT, K_TRT, K_PED, K_PEA} :
               (CASE x = K_ETRT -> e [] x = K_TRT -> t
                  [] x = K_PED -> p [] OTHER -> a) # Absent} |->
        CASE k = K_ETRT -> e [] k = K_TRT -> t [] k = K_PED -> p [] OTHER -> a]

NormMetas ==
    {MetaOf(e, t, p, a) : e \in EtrtOpts, t \in TrtOpts, p \in PedOpts,
                          a \in PeaOpts}

IntendedLists == {<< >>, << <<"d", "w", "i", "/", "a">> >>}
PedArgs == {None, <<"j">>, <<"j", "-">>}

InitNorm ==
    /\ InitFiles
    /\ cls = ClsIdle
    /\ bv = BvIdle
    /\ race = RaceIdle
    /\ norm \in {[NormIdle EXCEPT !.before = m, !.file = m] : m \in NormMetas}

\* A call: load_json, the edits, and save_json unless an exception came first.
\* prev keeps the call before it.
NormCall(fn, rev, ped, intended, r) ==
    /\ norm.calls < MaxCalls
    /\ norm' = [fn |-> fn, rev |-> rev, ped |-> ped, intended |-> intended,
                before |-> norm.file,
                file |-> IF r.ok THEN r.meta ELSE norm.file,
                status |-> IF r.ok THEN "saved" ELSE "error",
                calls |-> norm.calls + 1,
                prev |-> [fn |-> norm.fn, rev |-> norm.rev, ped |-> norm.ped,
                          intended |-> norm.intended, before |-> norm.before,
                          status |-> norm.status]]
    /\ UNCHANGED <<staged, bids, dataset_description, participants, submap,
                   fs_out, run, hist, cls, bv, race>>

NormUpdateDwi ==
    \E rev \in BOOLEAN :
        NormCall("update_dwi_json", rev, None, << >>,
                 update_dwi_json(norm.file, rev))

NormUpdateFmap ==
    \E rev \in BOOLEAN, intended \in IntendedLists :
        NormCall("update_fmap_json", rev, None, intended,
                 update_fmap_json(norm.file, rev, intended))

NormFuncUpdateDwi ==
    \E rev \in BOOLEAN :
        NormCall("func_update_dwi_json", rev, None, << >>,
                 func_update_dwi_json(norm.file, rev))

NormDraftUpdateDwi ==
    \E ped \in PedArgs :
        NormCall("draft_update_dwi_json", FALSE, ped, << >>,
                 draft_update_dwi_json(norm.file, ped))

NormDraftUpdateFmap ==
    \E ped \in PedArgs, intended \in IntendedLists :
        NormCall("draft_update_fmap_json", FALSE, ped, intended,
                 draft_update_fmap_json(norm.file, ped, intended))

NextNorm ==
    \/ NormUpdateDwi \/ NormUpdateFmap \/ NormFuncUpdateDwi
    \/ NormDraftUpdateDwi \/ NormDraftUpdateFmap

SpecNorm == InitNorm /\ [][NextNorm]_vars

(***************************************************************************)
(* The Filename Classifier on its own: a file name is put together from    *)
(* pieces and classified                                                   *)
(***************************************************************************)

MaxSegs == 3

Segments ==
    { <<"x">>, <<"_">>, <<"-">>,
      <<"d", "i", "r", "-", "P", "A">>, <<"d", "i", "r", "-", "a", "p">>,
      <<"D", "I", "R", "-", "p", "A">>,
      <<"a", "p", "p">>, <<"a", "p", "a">>, <<"p", "a">>, S_nii }

InitDir ==
    InitFiles /\ norm = NormIdle /\ cls = ClsIdle /\ bv = BvIdle /\ race = RaceIdle

ClsExtend ==
    /\ ~cls.done
    /\ cls.segs < MaxSegs
    /\ \E seg \in Segments :
          cls' = [cls EXCEPT !.name = @ \o seg, !.segs = @ + 1]
    /\ UNCHANGED <<staged, bids, dataset_description, participants, submap,
                   fs_out, run, hist, norm, bv, race>>

Classify ==
    /\ ~cls.done
    /\ cls.name # << >>
    /\ cls' = [cls EXCEPT !.result = find_dir_from_name(cls.name),
                          !.done = TRUE]
    /\ UNCHANGED <<staged, bids, dataset_description, participants, submap,
                   fs_out, run, hist, norm, bv, race>>

NextDir == ClsExtend \/ Classify

SpecDir == InitDir /\ [][NextDir]_vars

(***************************************************************************)
(* The shell inference on its own: a .bval file holds a list of numbers    *)
(* and infer_primary_bval_from_bvalfile is applied to it                   *)
(***************************************************************************)

MaxVals == 3

\* The numbers a .bval file may hold, in tenths: 0, 10.0, 10.4, 1000,
\* 1000.5, 1001.5 and 2000.
BvalNumbers == {0, 100, 104, 10000, 10005, 10015, 20000}

BvalLists == UNION {[1..k -> BvalNumbers] : k \in 0..MaxVals}

InitBval ==
    /\ InitFiles
    /\ norm = NormIdle
    /\ cls = ClsIdle
    /\ race = RaceIdle
    /\ bv \in {[BvIdle EXCEPT !.exists = TRUE, !.vals = v] : v \in BvalLists}
              \cup {BvIdle}

InferShell ==
    /\ ~bv.done
    /\ bv' = [bv EXCEPT
                !.result = infer_primary_bval_from_bvalfile(bv.exists, bv.vals),
                !.done = TRUE]
    /\ UNCHANGED <<staged, bids, dataset_description, participants, submap,
                   fs_out, run, hist, norm, cls, race>>

NextBval == InferShell

SpecBval == InitBval /\ [][NextBval]_vars

(***************************************************************************)
(* The scripts run one after the other on one output root                  *)
(***************************************************************************)

Next ==
    \/ StartRun
    \/ MainStage \/ MainDwi \/ MainFmap \/ MainT1 \/ MainRegistry
    \/ FuncDwi \/ FuncRpe \/ FuncT1 \/ FuncRegistry
    \/ DraftStage \/ DraftDwi \/ DraftFmap \/ DraftT1 \/ DraftRegistry

Spec == Init /\ [][Next]_vars

(***************************************************************************)
(* One run on an output root that already holds registry files             *)
(*                                                                         *)
(* participants.tsv and bids_subject_map.tsv are read back by every run;   *)
(* here the files found by the run are drawn from well-formed and          *)
(* malformed ones, and one run of one of the scripts follows.              *)
(***************************************************************************)

S_row_b == Join(<<(<<"b">>), S_sub \o <<"b">>>>, "\t")
S_map_header == Join(<<S_xnat_subject, S_bids_subject>>, "\t")

\* participants.tsv as found: absent, well-formed, or starting with a data
\* row.
FoundParticipants ==
    { NoFile,
      [exists |-> TRUE, lines |-> <<S_participant_id, S_sub \o <<"b">>>>],
      [exists |-> TRUE, lines |-> <<S_sub \o <<"b">>>>],
      [exists |-> TRUE, lines |-> <<S_sub \o <<"b">>, S_sub \o <<"c">>>>] }

\* bids_subject_map.tsv as found: absent, well-formed, with a row of three
\* columns, with a row of one column, or starting with a data row.
FoundSubjectMaps ==
    { NoFile,
      [exists |-> TRUE, lines |-> <<S_map_header, S_row_b>>],
      [exists |-> TRUE, lines |-> <<S_map_header, S_row_b \o <<"\t", "x">>>>],
      [exists |-> TRUE, lines |-> <<S_map_header, <<"b">>>>],
      [exists |-> TRUE, lines |-> <<S_row_b>>] }

InitReg ==
    /\ staged = [DWI |-> NoFiles, fmap |-> NoFiles, T1w |-> NoFiles]
    /\ bids = NoFiles
    /\ dataset_description = FALSE
    /\ participants \in FoundParticipants
    /\ submap \in FoundSubjectMaps
    /\ fs_out = FALSE
    /\ run = IdleRun
    /\ hist = [InitHist EXCEPT !.n = MaxRuns - 1]
    /\ norm = NormIdle /\ cls = ClsIdle /\ bv = BvIdle /\ race = RaceIdle

SpecReg == InitReg /\ [][Next]_vars

(***************************************************************************)
(* Two invocations at the same time on one output root                     *)
(*                                                                         *)
(* Two processes execute the registry block of bidsify (lines 278-301 of   *)
(* bidsify_qsiprep.py, lines 170-179 of bidsify_qsiprep_func.py) for       *)
(* different subjects.  Every file system call of the block is one step:   *)
(* exists(), read_text(), open("w"), which truncates, and the close at the *)
(* end of the with block, which puts the buffered lines into the file.     *)
(* race is [pc, cfg, rows, plan, serial], the first four per process:      *)
(* rows and plan are the local variables rows and (header, pairs); serial  *)
(* says that no process has taken a step while the other one was in the    *)
(* middle of its block.                                                    *)
(***************************************************************************)

Procs == {1, 2}
Other(i) == 3 - i
RacePipes == {"main", "func"}
NoPlan == [header |-> << >>, pairs |-> << >>]

InitRace ==
    /\ staged = [DWI |-> NoFiles, fmap |-> NoFiles, T1w |-> NoFiles]
    /\ bids = NoFiles
    /\ dataset_description = FALSE
    /\ participants \in
          {NoFile,
           [exists |-> TRUE, lines |-> <<S_participant_id, S_sub \o <<"b">>>>]}
    /\ submap \in
          {NoFile, [exists |-> TRUE, lines |-> <<S_map_header, S_row_b>>]}
    /\ fs_out = FALSE
    /\ run = IdleRun
    /\ hist = InitHist
    /\ norm = NormIdle /\ cls = ClsIdle /\ bv = BvIdle
    /\ \E l1 \in Labels, l2 \in Labels, p1 \in RacePipes, p2 \in RacePipes :
          /\ sanitize_bids_subj(l1) # sanitize_bids_subj(l2)
          /\ race = [pc |-> <<"start", "start">>,
                     cfg |-> <<[pipe |-> p1, label |-> l1],
                               [pipe |-> p2, label |-> l2]>>,
                     rows |-> << << >>, << >> >>,
                     plan |-> <<NoPlan, NoPlan>>,
                     serial |-> TRUE]

\* Process i goes to pc; rows and plan are its local variables afterwards.
RaceStep(i, pc, rows, plan) ==
    [race EXCEPT !.pc[i] = pc, !.rows[i] = rows, !.plan[i] = plan,
                 !.serial = @ /\ race.pc[Other(i)] \in {"start", "done"}]

RaceFrame ==
    UNCHANGED <<staged, bids, fs_out, run, hist, norm, cls, bv>>

\* Lines 278-279 and 283-284: dataset_description.json is saved, then
\* part_tsv.exists(); without the file rows = [subj].
RaceCheckParticipants ==
    \E i \in Procs :
       /\ race.pc[i] = "start"
       /\ dataset_description' = TRUE
       /\ race' = IF participants.exists
                  THEN RaceStep(i, "p_read", race.rows[i], race.plan[i])
                  ELSE RaceStep(i, "p_open",
                                ParticipantRows(participants,
                                                subj_of(race.cfg[i])),
                                race.plan[i])
       /\ UNCHANGED <<participants, submap>>
       /\ RaceFrame

\* Lines 280-282: read_text() and the sorted union.
RaceReadParticipants ==
    \E i \in Procs :
       /\ race.pc[i] = "p_read"
       /\ race' = RaceStep(i, "p_open",
                           ParticipantRows(participants, subj_of(race.cfg[i])),
                           race.plan[i])
       /\ UNCHANGED <<dataset_description, participants, submap>>
       /\ RaceFrame

\* Line 285: open("w") leaves an empty file.
RaceOpenParticipants ==
    \E i \in Procs :
       /\ race.pc[i] = "p_open"
       /\ participants' = [exists |-> TRUE, lines |-> << >>]
       /\ race' = RaceStep(i, "p_write", race.rows[i], race.plan[i])
       /\ UNCHANGED <<dataset_description, submap>>
       /\ RaceFrame

\* Lines 286-287 and the end of the with block; bidsify_qsiprep_func.py
\* ends here.
RaceWriteParticipants ==
    \E i \in Procs :
       /\ race.pc[i] = "p_write"
       /\ participants' = [exists |-> TRUE,
                           lines |-> <<S_participant_id>> \o race.rows[i]]
       /\ race' = RaceStep(i, IF race.cfg[i].pipe = "main" THEN "m_check"
                              ELSE "done",
                           race.rows[i], race.plan[i])
       /\ UNCHANGED <<dataset_description, submap>>
       /\ RaceFrame

\* Lines 290-291 and 296-297: map_path.exists(); without the file the
\* header and the one pair.
RaceCheckMap ==
    \E i \in Procs :
       /\ race.pc[i] = "m_check"
       /\ race' = IF submap.exists
                  THEN RaceStep(i, "m_read", race.rows[i], race.plan[i])
                  ELSE RaceStep(i, "m_open", race.rows[i],
                                SubjectMapPlan(submap, race.cfg[i].label,
                                               subj_of(race.cfg[i])))
       /\ UNCHANGED <<dataset_description, participants, submap>>
       /\ RaceFrame

\* Lines 292-295: read_text(), header and sorted pairs.
RaceReadMap ==
    \E i \in Procs :
       /\ race.pc[i] = "m_read"
       /\ race' = RaceStep(i, "m_open", race.rows[i],
                           SubjectMapPlan(submap, race.cfg[i].label,
                                          subj_of(race.cfg[i])))
       /\ UNCHANGED <<dataset_description, participants, submap>>
       /\ RaceFrame

\* Line 299: open("w") leaves an empty file.
RaceOpenMap ==
    \E i \in Procs :
       /\ race.pc[i] = "m_open"
       /\ submap' = [exists |-> TRUE, lines |-> << >>]
       /\ race' = RaceStep(i, "m_write", race.rows[i], race.plan[i])
       /\ UNCHANGED <<dataset_description, participants>>
       /\ RaceFrame

\* Lines 300-301 and the end of the with block.
RaceWriteMap ==
    \E i \in Procs :
       /\ race.pc[i] = "m_write"
       /\ submap' = WritePlan(race.plan[i]).file
       /\ race' = RaceStep(i, "done", race.rows[i], race.plan[i])
       /\ UNCHANGED <<dataset_description, participants>>
       /\ RaceFrame

NextRace ==
    \/ RaceCheckParticipants \/ RaceReadParticipants
    \/ RaceOpenParticipants \/ RaceWriteParticipants
    \/ RaceCheckMap \/ RaceReadMap \/ RaceOpenMap \/ RaceWriteMap

SpecRace == InitRace /\ [][NextRace]_vars

(***************************************************************************)
(* Properties of the runs                                                  *)
(***************************************************************************)

\* The arguments of the run in progress, or of the last run when none is.
CurCfg == IF run.phase = "idle" THEN hist.last.cfg ELSE run.cfg

\* The names of the diffusion outputs of a run of bidsify_qsiprep.py: one per
\* staged diffusion image, in the order of the diffusion loop.
DwiOutNames ==
    [i \in 1..Len(GlobNii(staged.DWI)) |->
        strict_dwi_bids_name(subj_of(CurCfg), Fmt02d(i), S_fwd, S_nii)]

\* C1: in a run of bidsify_qsiprep.py, update_fmap_json is never called while
\* a diffusion image is still to be staged, and the IntendedFor list it saves
\* is the list of "dwi/<canonical .nii.gz name>" of all the staged diffusion
\* images, in staging order, each of them a file of the subject tree.
C1_IntendedForComplete ==
    \A i \in 1..Len(hist.fmap_calls) :
        /\ hist.fmap_calls[i].pending = 0
        /\ hist.fmap_calls[i].saved =>
              /\ hist.fmap_calls[i].json \in DOMAIN bids
              /\ Get(bids[hist.fmap_calls[i].json].meta, K_IF) =
                     ListV([k \in 1..Len(DwiOutNames) |->
                               S_dwislash \o DwiOutNames[k]])
              /\ \A k \in 1..Len(DwiOutNames) :
                     <<subj_of(CurCfg), "dwi", DwiOutNames[k]>> \in DOMAIN bids

\* Three diffusion sets and the reverse-reference set were staged and the
\* reverse-reference metadata was saved.
C1_Witness ==
    /\ Len(GlobNii(staged.DWI)) = 3
    /\ \E i \in 1..Len(hist.fmap_calls) :
          /\ hist.fmap_calls[i].saved
          /\ Len(Get(bids[hist.fmap_calls[i].json].meta, K_IF).l) = 3

\* C2: within a run, no file is written from two different input file sets:
\* the second set never goes over the first.
C2_NoSilentOverwrite ==
    \A m1 \in hist.made : \A m2 \in hist.made :
        m1.path = m2.path => m1.id = m2.id

\* C3: while a run has not ended, and after a run that stopped on a missing
\* companion, an underivable direction or a failed FreeSurfer copy,
\* participants.tsv and bids_subject_map.tsv are as they were before the run.
C3_NoRegistryUpdateOnAbort ==
    (\/ run.phase # "idle"
     \/ /\ hist.last.outcome = "abort"
        /\ hist.last.err \in {"MissingCompanionFile", "UnresolvableDirection",
                              "FsCopyFailed"})
    => /\ participants = hist.before.participants
       /\ submap = hist.before.submap

\* A second run on a root that has a registry stopped in the diffusion loop.
C3_Witness ==
    /\ run.phase = "idle"
    /\ hist.last.outcome = "abort"
    /\ hist.last.err = "UnresolvableDirection"
    /\ hist.failed # {}
    /\ participants.exists

\* C4: after a run that stopped, no file of the file set that failed is at
\* its canonical path in the subject tree.
C4_NoPartialFiles ==
    (run.phase = "idle" /\ hist.last.outcome = "abort")
    => hist.failed \cap DOMAIN bids = {}

\* C7: participants.tsv is the header participant_id followed by one row per
\* subject id of the runs so far, in strictly increasing order.
C7_ParticipantsSorted ==
    IF participants.exists
    THEN /\ Len(participants.lines) >= 1
         /\ participants.lines[1] = S_participant_id
         /\ {participants.lines[i] : i \in 2..Len(participants.lines)}
                = hist.subjects
         /\ \A i \in 2..Len(participants.lines) :
               \A j \in (i + 1)..Len(participants.lines) :
                   StrLess(participants.lines[i], participants.lines[j])
    ELSE hist.subjects = {}

\* Two runs that ended well for the same subject left one row.
C7_Witness ==
    /\ run.phase = "idle"
    /\ hist.n = 2
    /\ hist.first.outcome = "ok"
    /\ hist.last.outcome = "ok"
    /\ subj_of(hist.first.cfg) = subj_of(hist.last.cfg)
    /\ Len(participants.lines) = 2

\* C8: after a run of bidsify_qsiprep.py that ended well, bids_subject_map.tsv
\* is the header xnat_subject<TAB>bids_subject followed by the sorted distinct
\* (raw label, sub-<sanitized label>) pairs of the runs so far.
C8_SubjectMapPairs ==
    (run.phase = "idle" /\ hist.last.cfg.pipe = "main"
        /\ hist.last.outcome = "ok")
    => /\ submap.exists
       /\ submap.lines =
             <<Join(<<S_xnat_subject, S_bids_subject>>, "\t")>>
             \o [i \in 1..Cardinality(hist.pairs) |->
                    Join(SortTuples(hist.pairs)[i], "\t")]

\* C9: a second run of bidsify_qsiprep.py with the arguments of the first, on
\* the root the first left, ends well and leaves the subject tree and both
\* registries as the first run left them.
C9_SecondRunIdentical ==
    (/\ run.phase = "idle"
     /\ hist.n = 2
     /\ hist.first.cfg.pipe = "main"
     /\ hist.first.outcome = "ok"
     /\ hist.last.cfg = hist.first.cfg)
    => /\ hist.last.outcome = "ok"
       /\ bids = hist.first.bids
       /\ participants = hist.first.participants
       /\ submap = hist.first.submap

\* The files a run wrote into the dwi and fmap folders of the subject tree,
\* each with the input file set it comes from.
SeriesMade ==
    {m \in hist.made : m.path[1] # None /\ m.path[2] \in {"dwi", "fmap"}}

\* The acquisition token of a canonical name: the digits after "_acq-".
AcqOf(name) ==
    DigitRun(name, Min({i \in 1..Len(name) : name[i] = "_"}) + 5)

\* C12: in a run of bidsify_qsiprep.py or bidsify_qsiprep_func.py two
\* different file sets, diffusion or reverse-reference, never get the same
\* acq token or the same canonical name, and while the run goes on the
\* number of tokens given is the value of the one counter.
C12_SingleCounter ==
    CurCfg.pipe \in {"main", "func"} =>
        /\ \A m1 \in SeriesMade : \A m2 \in SeriesMade :
              m1.id # m2.id =>
                  /\ AcqOf(m1.path[3]) # AcqOf(m2.path[3])
                  /\ m1.path[3] # m2.path[3]
        /\ run.phase # "idle" =>
              Cardinality({AcqOf(m.path[3]) : m \in SeriesMade}) = run.niicount

\* A run of bidsify_qsiprep.py ended well with three diffusion sets and the
\* reverse-reference set under acq-04.
C12_Witness ==
    /\ run.phase = "idle"
    /\ hist.last.cfg.pipe = "main"
    /\ hist.last.outcome = "ok"
    /\ Cardinality({m.id : m \in SeriesMade}) = 4
    /\ \E m \in SeriesMade :
          m.path[2] = "fmap" /\ AcqOf(m.path[3]) = <<"0", "4">>

\* The k-th declared diffusion input of the last run is in the subject tree
\* under acq-<k as two digits>.
DeclaredAt(k) ==
    /\ <<subj_of(CurCfg), "dwi",
         strict_dwi_bids_name(subj_of(CurCfg), Fmt02d(k), S_fwd, S_nii)>>
           \in DOMAIN bids
    /\ bids[<<subj_of(CurCfg), "dwi",
              strict_dwi_bids_name(subj_of(CurCfg), Fmt02d(k), S_fwd, S_nii)>>].origin
           = <<CurCfg.dwi[k], S_nii>>

\* C13: after a run of bidsify_qsiprep.py or bidsify_qsiprep_func.py that
\* ended well, the k-th input declared with --dwi_niigzs is written under
\* acq-<k as two digits>, for every k.
C13_DeclaredOrder ==
    (run.phase = "idle" /\ hist.last.outcome = "ok"
        /\ hist.last.cfg.pipe \in {"main", "func"})
    => \A k \in 1..Len(hist.last.cfg.dwi) : DeclaredAt(k)

\* The input file sets of a run with the folder of the subject tree that
\* takes them.
RunSets(cfg) ==
    {[id |-> cfg.dwi[i], folder |-> "dwi"] : i \in 1..Len(cfg.dwi)}
    \cup {[id |-> cfg.rpe, folder |-> "fmap"], [id |-> cfg.t1, folder |-> "anat"]}

\* Companion ext of input set id has a copy with a canonical name in the
\* folder of the subject tree.
CopiedTo(subj, folder, id, ext) ==
    \E pth \in DOMAIN bids :
       /\ pth[1] = subj
       /\ pth[2] = folder
       /\ EndsWith(pth[3], ext)
       /\ bids[pth] = InputFile(id, ext)

\* A metadata file of a diffusion or reverse-reference series.
SeriesJson(pth) == pth[2] \in {"dwi", "fmap"} /\ EndsWith(pth[3], S_json)

\* C18: after a successful run of bidsify_qsiprep.py every .nii.gz, .bval and
\* .bvec that exists in a file set of the run has an identical copy under a
\* canonical name in the folder of its role; of the files of the subject
\* tree only the .json files of the dwi and fmap folders differ from the
\* input file they were copied from, and the staged copies are identical to
\* the inputs.
C18_VerbatimCopies ==
    (run.phase = "idle" /\ hist.last.cfg.pipe = "main"
        /\ hist.last.outcome = "ok")
    => /\ \A s \in RunSets(hist.last.cfg) :
          \A ext \in {S_nii, S_bval, S_bvec} :
             SrcExists(s.id, ext)
                => CopiedTo(subj_of(hist.last.cfg), s.folder, s.id, ext)
       /\ \A pth \in DOMAIN bids :
             ~SeriesJson(pth)
                => bids[pth] = InputFile(bids[pth].origin[1],
                                         bids[pth].origin[2])
       /\ \A d \in {"DWI", "fmap", "T1w"} :
             \A name \in DOMAIN staged[d] :
                staged[d][name] = InputFile(staged[d][name].origin[1],
                                            staged[d][name].origin[2])

\* The first line of a registry file is not the header the scripts write.
NoHeader(file, header) ==
    file.exists /\ file.lines # << >> /\ file.lines[1] # header

\* A row of the subject map that does not have two columns.
BadRow(file) ==
    /\ file.exists
    /\ \E i \in 2..Len(file.lines) :
          /\ Strip(file.lines[i]) # << >>
          /\ Len(Split(Strip(file.lines[i]), "\t")) # 2

\* The registry files that the run found and that its script reads back are
\* malformed: participants.tsv is read by all three scripts, the subject map
\* by bidsify_qsiprep.py and the draft.
FoundMalformed ==
    \/ NoHeader(hist.before.participants, S_participant_id)
    \/ /\ hist.last.cfg.pipe \in {"main", "draft"}
       /\ \/ NoHeader(hist.before.submap, S_map_header)
          \/ BadRow(hist.before.submap)

\* C16: a run that found a malformed registry file has aborted and has left
\* both registry files as it found them.
C16_CorruptRegistryRefused ==
    (run.phase = "idle" /\ hist.last.outcome # "none" /\ FoundMalformed)
        => /\ hist.last.outcome = "abort"
           /\ participants = hist.before.participants
           /\ submap = hist.before.submap

\* Both processes are through their registry block.
RaceDone == race.pc = <<"done", "done">>

HasRow(file, row) == \E k \in 1..Len(file.lines) : file.lines[k] = row

\* A row of the subject map whose second column is subj.
MapsTo(file, subj) ==
    \E k \in 2..Len(file.lines) :
       LET row == Split(file.lines[k], "\t")
       IN  Len(row) = 2 /\ row[2] = subj

\* The subject of process i is in the registry files: in participants.tsv
\* and, for bidsify_qsiprep.py, in a row of the subject map.
Registered(i) ==
    /\ HasRow(participants, subj_of(race.cfg[i]))
    /\ race.cfg[i].pipe = "main" => MapsTo(submap, subj_of(race.cfg[i]))

\* C17: when two invocations for different subjects ran one after the other,
\* the registry files hold both subjects after the second; the final state in
\* which a subject is missing (C17_Witness) needs interleaved steps.
C17_SerializedKeepsBoth ==
    (RaceDone /\ race.serial) => \A i \in Procs : Registered(i)

\* Both processes computed their rows from a participants.tsv without the
\* other subject, that is, both read before either rewrote, and the final
\* participants.tsv lacks one of the two subjects.
C17_Witness ==
    /\ RaceDone
    /\ \A i \in Procs :
          \A k \in 1..Len(race.rows[i]) :
             race.rows[i][k] # subj_of(race.cfg[Other(i)])
    /\ \E i \in Procs : ~HasRow(participants, subj_of(race.cfg[i]))

(***************************************************************************)
(* Properties of the Metadata Normalizer                                   *)
(***************************************************************************)

StrictNormalizers ==
    {"update_dwi_json", "update_fmap_json", "func_update_dwi_json"}

\* The key is not in the record, or it holds a string of white space.
AbsentOrBlank(meta, k) ==
    \/ k \notin DOMAIN meta
    \/ /\ meta[k].t = "str"
       /\ \A i \in 1..Len(meta[k].s) : meta[k].s[i] \in Whitespace

Falsy(v) == v \in {StrV(<< >>), NumV(0), ListV(<< >>), NoneV}

\* What the migration makes of TotalReadoutTime.
MigratedTRT(meta) ==
    IF K_TRT \notin DOMAIN meta \/ Falsy(meta[K_TRT])
    THEN meta[K_ETRT] ELSE meta[K_TRT]

\* C6 as stated: every record that holds EstimatedTotalReadoutTime is saved
\* without that key and with TotalReadoutTime equal to the former
\* EstimatedTotalReadoutTime when TotalReadoutTime was absent or empty, and
\* to the prior TotalReadoutTime otherwise.
C6_AsStated ==
    (norm.calls > 0 /\ K_ETRT \in DOMAIN norm.before) =>
        /\ norm.status = "saved"
        /\ K_ETRT \notin DOMAIN norm.file
        /\ K_TRT \in DOMAIN norm.file
        /\ norm.file[K_TRT] =
              IF K_TRT \notin DOMAIN norm.before
                 \/ norm.before[K_TRT] = StrV(<< >>)
              THEN norm.before[K_ETRT] ELSE norm.before[K_TRT]

\* C6, amended: a call on a record that holds EstimatedTotalReadoutTime either
\* saves a record without that key, whose TotalReadoutTime is the former
\* EstimatedTotalReadoutTime when TotalReadoutTime was absent or falsy ("", 0)
\* and the prior TotalReadoutTime otherwise, or it is a call of a normalizer
\* of bidsify_qsiprep.py or bidsify_qsiprep_func.py on a record with no
\* direction and no axis, which raises and leaves the file as it was.  The
\* normalizers of the draft always save.
C6_ReadoutMigration ==
    (norm.calls > 0 /\ K_ETRT \in DOMAIN norm.before) =>
        IF norm.status = "saved"
        THEN /\ K_ETRT \notin DOMAIN norm.file
             /\ K_TRT \in DOMAIN norm.file
             /\ norm.file[K_TRT] = MigratedTRT(norm.before)
        ELSE /\ norm.fn \in StrictNormalizers
             /\ AbsentOrBlank(norm.before, K_PED)
             /\ AbsentOrBlank(norm.before, K_PEA)
             /\ norm.file = norm.before

\* update_dwi_json of bidsify_qsiprep.py migrated the deprecated value over a
\* TotalReadoutTime of 0.
C6_Witness ==
    /\ norm.fn = "update_dwi_json"
    /\ norm.status = "saved"
    /\ K_ETRT \in DOMAIN norm.before
    /\ K_TRT \in DOMAIN norm.before
    /\ norm.before[K_TRT] = NumV(0)
    /\ norm.file[K_TRT] = norm.before[K_ETRT]
    /\ norm.before[K_ETRT] # NumV(0)

\* C14: called on a record whose PhaseEncodingDirection is absent or blank
\* and whose PhaseEncodingAxis is present and not blank, the normalizers of
\* bidsify_qsiprep.py and bidsify_qsiprep_func.py save PhaseEncodingDirection
\* as the axis value when reverse_pedir is not set, and otherwise as the axis
\* value without its "-" when it holds one and with "-" appended when not.
C14_PolarityToggle ==
    (/\ norm.fn \in StrictNormalizers
     /\ AbsentOrBlank(norm.before, K_PED)
     /\ ~AbsentOrBlank(norm.before, K_PEA))
    => /\ norm.status = "saved"
       /\ K_PED \in DOMAIN norm.file
       /\ norm.file[K_PED] =
             IF ~norm.rev THEN norm.before[K_PEA]
             ELSE IF \E i \in 1..Len(norm.before[K_PEA].s) :
                        norm.before[K_PEA].s[i] = "-"
             THEN StrV(SelectSeq(norm.before[K_PEA].s, LAMBDA c : c # "-"))
             ELSE StrV(norm.before[K_PEA].s \o <<"-">>)

\* update_fmap_json, with reverse_pedir set, made "j" of the axis "j-".
C14_Witness ==
    /\ norm.fn = "update_fmap_json"
    /\ norm.rev
    /\ AbsentOrBlank(norm.before, K_PED)
    /\ K_PEA \in DOMAIN norm.before
    /\ norm.before[K_PEA] = StrV(<<"j", "-">>)
    /\ norm.status = "saved"
    /\ norm.file[K_PED] = StrV(<<"j">>)

\* The last two calls were calls of the same normalizer with the same
\* arguments, and the first of them saved the file.
SameCallTwice ==
    /\ norm.calls >= 2
    /\ norm.prev.fn = norm.fn
    /\ norm.prev.rev = norm.rev
    /\ norm.prev.ped = norm.ped
    /\ norm.prev.intended = norm.intended
    /\ norm.prev.status = "saved"

\* C15: a second call of a normalizer on the file that a first call with the
\* same reverse flag and the same cross-reference list saved succeeds and
\* saves the record that the first call saved.
C15_SecondCallNoChange ==
    SameCallTwice => (norm.status = "saved" /\ norm.file = norm.before)

\* update_fmap_json was called twice with reverse_pedir set on a record with
\* the deprecated readout time, the axis "j" and no direction.
C15_Witness ==
    /\ SameCallTwice
    /\ norm.fn = "update_fmap_json"
    /\ norm.rev
    /\ K_ETRT \in DOMAIN norm.prev.before
    /\ K_PED \notin DOMAIN norm.prev.before
    /\ K_PEA \in DOMAIN norm.prev.before
    /\ norm.prev.before[K_PEA] = StrV(<<"j">>)
    /\ norm.file[K_PED] = StrV(<<"j", "-">>)
    /\ K_ETRT \notin DOMAIN norm.file

(***************************************************************************)
(* Properties of the Filename Classifier                                   *)
(***************************************************************************)

\* The positions of the name where an explicit dir-XX token starts: "dir-"
\* at the start or after a separator, two letters, and then a separator, the
\* "." of a file extension, or the end of the name.
ExplicitDirTokens(name) ==
    {i \in 1..Len(name) :
        /\ i + 5 <= Len(name)
        /\ (i = 1 \/ name[i - 1] \in Separators)
        /\ Lower(SubSeq(name, i, i + 3)) = S_dirdash
        /\ name[i + 4] \in Letters
        /\ name[i + 5] \in Letters
        /\ (i + 5 = Len(name) \/ name[i + 6] \in Separators \cup {"."})}

\* C10: for a name that holds an explicit dir-XX token, find_dir_from_name
\* returns XX in upper case, whatever hint the name holds and whatever comes
\* after the token.
C10_DirTokenWins ==
    (cls.done /\ ExplicitDirTokens(cls.name) # {}) =>
        cls.result = Upper(SubSeq(cls.name, Min(ExplicitDirTokens(cls.name)) + 4,
                                  Min(ExplicitDirTokens(cls.name)) + 5))

(***************************************************************************)
(* Properties of the shell inference                                       *)
(***************************************************************************)

\* The numbers of the list rounded to integers, without those at or below
\* the near-zero threshold of 10.
RoundedKept(vals) ==
    SelectSeq([i \in 1..Len(vals) |-> RoundTenths(vals[i])], LAMBDA x : x > 10)

\* The smallest of the most frequent numbers of a list that is not empty.
SmallestMostFrequent(nz) ==
    Min({x \in {nz[i] : i \in 1..Len(nz)} :
            \A y \in {nz[i] : i \in 1..Len(nz)} :
                Cardinality({i \in 1..Len(nz) : nz[i] = x})
                    >= Cardinality({i \in 1..Len(nz) : nz[i] = y})})

\* C11: for every list of gradient values infer_primary_bval_from_bvalfile
\* returns the most frequent of the values that are left after rounding and
\* discarding those at or below the threshold, the smallest of them when
\* several are the most frequent, and zero when none is left.
C11_SmallestOfMostFrequent ==
    (bv.done /\ bv.exists) =>
        bv.result = IF RoundedKept(bv.vals) = << >> THEN <<"0">>
                    ELSE IntToStr(SmallestMostFrequent(RoundedKept(bv.vals)))

====
